---- MODULE Spec2Model ----
(***************************************************************************)
(* Model of the SSH session layer of CommandX (backend/api):               *)
(*   SSHInteractiveSession, SSHInteractiveSessionManager and               *)
(*   exec_command_interactive of ssh_interactive.py.                       *)
(*                                                                         *)
(* Session objects live in `heap`, keyed by object identity; `allocated`   *)
(* counts the objects constructed so far and an object that neither the    *)
(* manager's dict nor a thread refers to any more is freed.  The manager's *)
(* dict `_sessions` is `sessions`, its RLock is `lock`.  Each request      *)
(* thread runs exec_command_interactive and is stopped at every point      *)
(* where another thread can interleave: before taking the pool lock, at    *)
(* each blocking connect, at the liveness check of execute_command, while  *)
(* its command is in flight and before the handler of a connection error.  *)
(***************************************************************************)
EXTENDS Integers, Sequences, FiniteSets, TLC

VARIABLES now, heap, allocated, sessions, lock, pc, key, session, attempt,
          error, result, stats, sent

vars == <<now, heap, allocated, sessions, lock, pc, key, session, attempt,
          error, result, stats, sent>>

\* `sent` is no state of the program: it remembers, for the length of one
\* exec_command_interactive call, that line 55 has handed the command to a
\* live transport and the attempt has failed afterwards.

\* The workspaces of allocated servers (allocated_server_utils.py) are
\* directories of the host: `fs` is the host's filesystem and `last` the
\* call the local executor served last, with what it returned.  The session
\* layer never touches either.
VARIABLES fs, last

lvars == <<fs, last>>

(* ---------------------------- bounds ---------------------------------- *)
\* request threads of the worker pool and target identities (server.id)
Threads == {"t1", "t2"}

Keys == {1, 2}

\* session objects constructed in one run
MaxSessions == 2

\* the clock is observed MaxTicks times, one reconnect interval apart
MaxTicks == 2

(* ------------------------- program constants -------------------------- *)
reconnect_interval == 600

max_retries == 2

\* max_idle_time arguments tried by cleanup_inactive
MaxIdleChoices == {0, reconnect_interval}

(* ------------------------------ helpers ------------------------------- *)
\* bytes.decode('utf-8', errors='replace') on a byte string: a byte that is
\* not valid UTF-8 (>= 128 standing alone) becomes U+FFFD, ASCII stays.
DecodeByte(b) == IF b < 128 THEN b ELSE 65533

Decode(bs) == [i \in 1..Len(bs) |-> DecodeByte(bs[i])]

\* what the remote side can answer to a command: exit status and raw bytes
Replies ==
  { [code |-> 0, out |-> <<104>>, err |-> <<>>],
    [code |-> 2, out |-> <<255, 104>>, err |-> <<104>>] }

\* bookkeeping of one exec_command_interactive call, kept for as long as
\* the call has found the endpoint unreachable (no session obtained yet):
\* connect attempts made by the running get_session call (call) and by the
\* whole call (fails), all failed, and whether this thread's previous call,
\* for the same server, ended on a failure of the transport in mid-command
\* (after).  Once the call holds a session the books are closed (Reached).
NoStats == [call |-> 0, fails |-> 0, ok |-> FALSE, after |-> FALSE]

Reached == [call |-> 0, fails |-> 0, ok |-> TRUE, after |-> FALSE]

\* dict helpers: del m[k] / m[k] = s
Del(m, k) == [x \in DOMAIN m \ {k} |-> m[x]]

Put(m, k, s) == [x \in DOMAIN m \cup {k} |-> IF x = k THEN s ELSE m[x]]

\* reference counting: the objects of h that the dict m or a thread's local
\* variable `session` (sess) still refers to; the others are freed
Live(h, m, sess) ==
  [s \in {x \in DOMAIN h : \/ \E k \in DOMAIN m : m[k] = x
                           \/ \E t \in DOMAIN sess : sess[t] = x} |-> h[s]]

(* -------------------------- SSHInteractiveSession --------------------- *)
\* __init__: a fresh session around a freshly connected client
NewSession(k) ==
  [server |-> k, created_at |-> now, last_used |-> now,
   is_closed |-> FALSE, transport |-> "active"]

\* close() that closes the client as well
close_with_client(h, s) ==
  [h EXCEPT ![s].is_closed = TRUE, ![s].transport = "none"]

\* close(): marks the session closed, leaves the client alone
close(h, s) == [h EXCEPT ![s].is_closed = TRUE]

\* client.close() of paramiko: the transport is gone afterwards
client_close(h, s) == [h EXCEPT ![s].transport = "none"]

\* is_valid() without the test of the closed flag
is_valid_ignoring_closed(s) == heap[s].transport = "active"

\* is_valid()
is_valid(s) == ~heap[s].is_closed /\ heap[s].transport = "active"

(* ---------------------- SSHInteractiveSessionManager ------------------ *)
\* _should_reconnect with > for >=
should_reconnect_late(s) == now - heap[s].created_at > reconnect_interval

\* _should_reconnect(session)
should_reconnect(s) == now - heap[s].created_at >= reconnect_interval

(* ------------------------------ the host ------------------------------ *)
\* A text is a sequence of characters; a run of characters that holds no
\* separator, dot, blank or letter any test looks at is written as one
\* character ("etc").  A path of the host is the sequence of its names.
\* settings.ALLOCATED_SERVERS_ROOT
ALLOCATED_SERVERS_ROOT == << <<"data">> >>

\* line 17 of allocated_server_utils.py, for the server of the model
server_root == ALLOCATED_SERVERS_ROOT \o << <<"user_1">>, <<"server_1">> >>

Dir == [kind |-> "dir"]

File(c) == [kind |-> "file", content |-> c]

Link(target) == [kind |-> "link", target |-> target]

etc == << <<"etc">> >>

passwd == etc \o << <<"passwd">> >>

\* the host before the first call for the server: the directory of all
\* workspaces, no workspace yet, and a file of the host outside of it
Host ==
  (<<>> :> Dir) @@ (ALLOCATED_SERVERS_ROOT :> Dir) @@ (etc :> Dir)
    @@ (passwd :> File(<<"root:x:0:0">>))

\* nothing served yet
NoCall == [op |-> "none"]

InitSessions ==
  /\ now = 0
  /\ heap = <<>>
  /\ allocated = 0
  /\ sessions = <<>>
  /\ lock = "free"
  /\ pc = [t \in Threads |-> "get_session"]
  /\ key \in [Threads -> Keys]
  /\ session = [t \in Threads |-> 0]
  /\ attempt = [t \in Threads |-> 0]
  /\ error = [t \in Threads |-> "none"]
  /\ result = [t \in Threads |-> <<>>]
  /\ stats = [t \in Threads |-> NoStats]
  /\ sent = [t \in Threads |-> FALSE]

Init ==
  /\ InitSessions
  /\ fs = Host
  /\ last = NoCall

(* ------------------------ exec_command_interactive -------------------- *)
\* a worker thread whose call has returned ("done") or raised ("raised")
\* enters exec_command_interactive(server, command) for its next request
NextRequest(t, k) ==
  /\ pc[t] \in {"done", "raised"}
  /\ pc' = [pc EXCEPT ![t] = "get_session"]
  /\ key' = [key EXCEPT ![t] = k]
  /\ error' = [error EXCEPT ![t] = "none"]
  /\ result' = [result EXCEPT ![t] = <<>>]
  /\ stats' = [stats EXCEPT ![t] =
       [NoStats EXCEPT !.after =
          pc[t] = "raised" /\ error[t] = "exec_failed" /\ key[t] = k]]
  /\ UNCHANGED <<now, heap, allocated, sessions, lock, session, attempt>>
  /\ UNCHANGED sent
  /\ UNCHANGED lvars

(* ------------------------------ get_session --------------------------- *)
\* the test of line 127: the entry is handed out as it is
usable(s) == is_valid(s) /\ ~should_reconnect(s)

\* the eviction without the del of line 140
evict_keeping_entry(h, m, k) ==
  [heap |-> client_close(close(h, m[k]), m[k]), sessions |-> m]

\* lines 129-140: session.close(), session.client.close(), del
evict(h, m, k) ==
  [heap |-> client_close(close(h, m[k]), m[k]), sessions |-> Del(m, k)]

\* the `with` block of line 122 entered without the lock being taken
with_enter_unlocked(t) == "free"

\* line 122: the thread that enters the `with` block owns the lock
with_enter(t) == t

\* lines 122-128: entry present and usable, returned under the lock
GetSessionHit(t) ==
  /\ pc[t] = "get_session"
  /\ lock = "free"
  /\ key[t] \in DOMAIN sessions
  /\ usable(sessions[key[t]])
  /\ session' = [session EXCEPT ![t] = sessions[key[t]]]
  /\ stats' = [stats EXCEPT ![t] = Reached]
  /\ pc' = [pc EXCEPT ![t] = "ensure"]
  /\ UNCHANGED <<now, heap, allocated, sessions, lock, key, attempt, error,
                 result>>
  /\ UNCHANGED sent
  /\ UNCHANGED lvars

\* lines 122-140: entry present but invalid or too old: closed and evicted,
\* the lock stays held for the connect that follows
GetSessionEvict(t) ==
  /\ pc[t] = "get_session"
  /\ lock = "free"
  /\ key[t] \in DOMAIN sessions
  /\ ~usable(sessions[key[t]])
  /\ LET e == evict(heap, sessions, key[t]) IN
       /\ heap' = Live(e.heap, e.sessions, session)
       /\ sessions' = e.sessions
  /\ lock' = with_enter(t)
  /\ pc' = [pc EXCEPT ![t] = "connect1"]
  /\ UNCHANGED <<now, allocated, key, session, attempt, error, result, stats>>
  /\ UNCHANGED sent
  /\ UNCHANGED lvars

\* lines 122-123: no entry, straight to the connect with the lock held
GetSessionMiss(t) ==
  /\ pc[t] = "get_session"
  /\ lock = "free"
  /\ key[t] \notin DOMAIN sessions
  /\ lock' = with_enter(t)
  /\ pc' = [pc EXCEPT ![t] = "connect1"]
  /\ UNCHANGED <<now, heap, allocated, sessions, key, session, attempt, error,
                 result, stats>>
  /\ UNCHANGED sent
  /\ UNCHANGED lvars

\* the position reached when a connect attempt raises: the first failure
\* leads through the sleep of line 151 to the connect of line 152, the second
\* to the raise of line 157
after_connect_failure_again(p) == "connect2"

after_connect_failure(p) == IF p = "connect1" THEN "connect2" ELSE "except"

\* one more failed connect attempt on the books; `call` is cleared on the
\* way out of get_session
Counted(st, leaving) ==
  IF st.ok THEN [st EXCEPT !.call = IF leaving THEN 0 ELSE @ + 1]
  ELSE [st EXCEPT !.call = IF leaving THEN 0 ELSE @ + 1, !.fails = @ + 1]

\* the `with` block of line 122 left with the lock still owned
with_exit_keeping(t) == t

\* the lock not given back when the block is left from the second connect
with_exit_keeping_after_retry(t) == IF pc[t] = "connect2" THEN t ELSE "free"

\* the `with` block of line 122 is left, by return or by raise: the owner
\* gives the lock back
with_exit(t) == "free"

\* lines 144-147 and 152-155: SSHClientFactory.connect succeeded
ConnectOk(t) ==
  /\ pc[t] \in {"connect1", "connect2"}
  /\ lock = t
  /\ allocated < MaxSessions
  /\ allocated' = allocated + 1
  /\ heap' = Put(heap, allocated + 1, NewSession(key[t]))
  /\ sessions' = Put(sessions, key[t], allocated + 1)
  /\ session' = [session EXCEPT ![t] = allocated + 1]
  /\ stats' = [stats EXCEPT ![t] = Reached]
  /\ lock' = with_exit(t)
  /\ pc' = [pc EXCEPT ![t] = "ensure"]
  /\ UNCHANGED <<now, key, attempt, error, result>>
  /\ UNCHANGED sent
  /\ UNCHANGED lvars

\* lines 148-151 and 156-157: SSHClientFactory.connect raised
ConnectFail(t) ==
  /\ pc[t] \in {"connect1", "connect2"}
  /\ lock = t
  /\ pc' = [pc EXCEPT ![t] = after_connect_failure(pc[t])]
  /\ IF after_connect_failure(pc[t]) = "except"
       THEN /\ lock' = with_exit(t)
            /\ error' = [error EXCEPT ![t] = "connect_failed"]
            /\ stats' = [stats EXCEPT ![t] = Counted(@, TRUE)]
       ELSE /\ stats' = [stats EXCEPT ![t] = Counted(@, FALSE)]
            /\ UNCHANGED <<lock, error>>
  /\ UNCHANGED <<now, heap, allocated, sessions, key, session, attempt,
                 result>>
  /\ UNCHANGED sent
  /\ UNCHANGED lvars

(* --------------------------- execute_command -------------------------- *)
\* _ensure_client without the test of the closed flag
ensure_client_ignoring_closed(s) ==
  IF heap[s].transport # "active" THEN "connection_lost" ELSE "none"

\* _ensure_client (lines 24-32): the error it raises, "none" when it passes
ensure_client(s) ==
  IF heap[s].is_closed THEN "session_closed"
  ELSE IF heap[s].transport # "active" THEN "connection_lost"
  ELSE "none"

\* lines 46-48: the liveness check; a failed check raises SSHConnectionError
\* outside the try block, so the session is not touched
EnsureClient(t) ==
  /\ pc[t] = "ensure"
  /\ error' = [error EXCEPT ![t] = ensure_client(session[t])]
  /\ pc' = [pc EXCEPT ![t] =
              IF ensure_client(session[t]) = "none" THEN "running" ELSE "except"]
  /\ UNCHANGED <<now, heap, allocated, sessions, lock, key, session, attempt,
                 result, stats>>
  /\ UNCHANGED sent
  /\ UNCHANGED lvars

\* lines 59-68: the value execute_command returns for a remote answer
returned_as_flag(r) ==
  <<IF r.code = 0 THEN 0 ELSE 1, Decode(r.out), Decode(r.err)>>

returned(r) == <<r.code, Decode(r.out), Decode(r.err)>>

\* lines 64-66: last_used refreshed after a completed command
touch(h, s) == [h EXCEPT ![s].last_used = now]

\* lines 55-68: the command ran on the remote side and answered r; line 227
\* returns the triple to the caller of exec_command_interactive and the
\* frame, with its locals, is gone
ExecOk(t, r) ==
  /\ pc[t] = "running"
  /\ heap[session[t]].transport = "active"
  /\ result' = [result EXCEPT ![t] = returned(r)]
  /\ session' = [session EXCEPT ![t] = 0]
  /\ attempt' = [attempt EXCEPT ![t] = 0]
  /\ stats' = [stats EXCEPT ![t] = NoStats]
  /\ heap' = Live(touch(heap, session[t]), sessions, session')
  /\ pc' = [pc EXCEPT ![t] = "done"]
  /\ UNCHANGED <<now, allocated, sessions, lock, key, error>>
  /\ sent' = [sent EXCEPT ![t] = FALSE]
  /\ UNCHANGED lvars

\* lines 70-73: the except branch closes the session
on_transport_error_left_open(h, s) == h

on_transport_error(h, s) == close(h, s)

\* lines 70-74: paramiko raised SSHException/OSError while the command was
\* in flight; the transport is left as it was or is found dead
ExecFail(t, dies) ==
  /\ pc[t] = "running"
  /\ dies \/ heap[session[t]].transport = "active"
  /\ heap' = LET h == on_transport_error(heap, session[t]) IN
               IF dies /\ h[session[t]].transport = "active"
                 THEN [h EXCEPT ![session[t]].transport = "dead"]
                 ELSE h
  /\ error' = [error EXCEPT ![t] = "exec_failed"]
  /\ pc' = [pc EXCEPT ![t] = "except"]
  /\ UNCHANGED <<now, allocated, sessions, lock, key, session, attempt,
                 result, stats>>
  /\ sent' = [sent EXCEPT ![t] = @ \/ heap[session[t]].transport = "active"]
  /\ UNCHANGED lvars

(* ---------------- close_session, close_all, cleanup_inactive ---------- *)
\* the command outlives its timeout: exec_command has put the timeout on the
\* channel (line 55) and the read of line 61 raises socket.timeout, which is
\* an OSError and so one of the exceptions of line 70; the transport stays
\* active
ExecTimeout(t) == ExecFail(t, FALSE)

\* close_session closing the session and leaving it in the dictionary
close_session_keeping_entry(h, m, k) ==
  IF k \in DOMAIN m
    THEN [heap |-> close(h, m[k]), sessions |-> m]
    ELSE [heap |-> h, sessions |-> m]

\* close_session deleting the entry and leaving the session open
close_session_leaving_open(h, m, k) == [heap |-> h, sessions |-> Del(m, k)]

\* close_session closing the session and emptying the dictionary
close_session_clearing(h, m, k) ==
  IF k \in DOMAIN m
    THEN [heap |-> close(h, m[k]), sessions |-> <<>>]
    ELSE [heap |-> h, sessions |-> <<>>]

\* close_session (lines 165-174)
close_session(h, m, k) ==
  IF k \in DOMAIN m
    THEN [heap |-> close(h, m[k]), sessions |-> Del(m, k)]
    ELSE [heap |-> h, sessions |-> m]

\* the loop running one round more than max_retries
retry_left_once_more(a) == a < max_retries

\* line 233: another round of the for loop is left
retry_left(a) == a < max_retries - 1

\* lines 228-239: the handler of SSHConnectionError: close_session, then
\* either the 0.2 s pause and the next attempt, or the final raise, which
\* ends the frame.  The local `session` is not read again before line 226
\* overwrites it.
ExceptHandler(t) ==
  /\ pc[t] = "except"
  /\ lock = "free"
  /\ session' = [session EXCEPT ![t] = 0]
  /\ LET c == close_session(heap, sessions, key[t]) IN
       /\ heap' = Live(c.heap, c.sessions, session')
       /\ sessions' = c.sessions
  /\ IF retry_left(attempt[t])
       THEN /\ attempt' = [attempt EXCEPT ![t] = @ + 1]
            /\ error' = [error EXCEPT ![t] = "none"]
            /\ pc' = [pc EXCEPT ![t] = "get_session"]
            /\ UNCHANGED stats
       ELSE /\ pc' = [pc EXCEPT ![t] = "raised"]
            /\ attempt' = [attempt EXCEPT ![t] = 0]
            /\ stats' = [stats EXCEPT ![t] = NoStats]
            /\ UNCHANGED error
  /\ UNCHANGED <<now, allocated, lock, key, result>>
  /\ sent' = [sent EXCEPT ![t] = @ /\ retry_left(attempt[t])]
  /\ UNCHANGED lvars

\* the sessions of h that the dict m holds under the keys ks, closed
close_each(h, m, ks) ==
  [s \in DOMAIN h |->
     IF \E k \in ks : m[k] = s THEN [h[s] EXCEPT !.is_closed = TRUE] ELSE h[s]]

\* close_all (lines 176-184)
CloseAll ==
  /\ lock = "free"
  /\ DOMAIN sessions # {}
  /\ heap' = Live(close_each(heap, sessions, DOMAIN sessions), <<>>, session)
  /\ sessions' = <<>>
  /\ UNCHANGED <<now, allocated, lock, pc, key, session, attempt, error,
                 result, stats>>
  /\ UNCHANGED sent
  /\ UNCHANGED lvars

\* line 193: the idle test of cleanup_inactive
idle_long_enough(current_time, last_used, max_idle_time) ==
  current_time - last_used >= max_idle_time

idle_too_long(current_time, last_used, max_idle_time) ==
  current_time - last_used > max_idle_time

\* lines 190-194: keys_to_remove
keys_to_remove(current_time, max_idle_time) ==
  {k \in DOMAIN sessions :
     idle_too_long(current_time, heap[sessions[k]].last_used, max_idle_time)}

\* the values time.time() returns in a run
Clock == {n * reconnect_interval : n \in 0..MaxTicks}

\* cleanup_inactive (lines 186-201).  current_time is read at line 188,
\* before the lock is asked for, so by the time the scan runs under the lock
\* it is any clock value up to now; the scan closes and deletes every
\* key_to_remove
CleanupInactive(current_time, max_idle_time) ==
  /\ lock = "free"
  /\ current_time <= now
  /\ DOMAIN sessions # {}
  /\ LET gone == keys_to_remove(current_time, max_idle_time) IN
       /\ sessions' = [k \in DOMAIN sessions \ gone |-> sessions[k]]
       /\ heap' = Live(close_each(heap, sessions, gone), sessions', session)
  /\ UNCHANGED <<now, allocated, lock, pc, key, session, attempt, error,
                 result, stats>>
  /\ UNCHANGED sent
  /\ UNCHANGED lvars

(* ----------------------------- environment ---------------------------- *)
\* time.time() moves on
Tick ==
  /\ now < MaxTicks * reconnect_interval
  /\ now' = now + reconnect_interval
  /\ UNCHANGED <<heap, allocated, sessions, lock, pc, key, session, attempt,
                 error, result, stats>>
  /\ UNCHANGED sent
  /\ UNCHANGED lvars

\* the connection of a session dies silently (transport.is_active() turns
\* false) without anybody calling close
TransportDie(s) ==
  /\ s \in DOMAIN heap
  /\ heap[s].transport = "active"
  /\ heap' = [heap EXCEPT ![s].transport = "dead"]
  /\ UNCHANGED <<now, allocated, sessions, lock, pc, key, session, attempt,
                 error, result, stats>>
  /\ UNCHANGED sent
  /\ UNCHANGED lvars

Next ==
  \/ \E t \in Threads, k \in Keys : NextRequest(t, k)
  \/ \E t \in Threads : GetSessionHit(t)
  \/ \E t \in Threads : GetSessionEvict(t)
  \/ \E t \in Threads : GetSessionMiss(t)
  \/ \E t \in Threads : ConnectOk(t)
  \/ \E t \in Threads : ConnectFail(t)
  \/ \E t \in Threads : EnsureClient(t)
  \/ \E t \in Threads, r \in Replies : ExecOk(t, r)
  \/ \E t \in Threads, dies \in BOOLEAN : ExecFail(t, dies)
  \/ \E t \in Threads : ExceptHandler(t)
  \/ CloseAll
  \/ \E c \in Clock, m \in MaxIdleChoices : CleanupInactive(c, m)
  \/ Tick
  \/ \E s \in 1..MaxSessions : TransportDie(s)

Spec == Init /\ [][Next]_vars

(* ====================================================================== *)
(*                         properties of the session pool                 *)
(* ====================================================================== *)
Closed(h, s) == h[s].is_closed

Age(s) == now - heap[s].created_at

\* t leaves get_session in this step with a session in hand
Returns(t) == pc[t] \in {"get_session", "connect1", "connect2"} /\ pc'[t] = "ensure"

\* the session object t receives in this step was constructed in this step
FreshFor(t) ==
  /\ allocated' = allocated + 1
  /\ session'[t] = allocated'
  /\ session'[t] \notin DOMAIN heap
  /\ heap'[session'[t]] = NewSession(key[t])
  /\ sessions' = Put(sessions, key[t], session'[t])

\* C1: a get_session call that finds an entry younger than the reconnect
\* interval, not closed and with an active transport returns that very entry,
\* so two such calls in a row return the same object; a call that finds the
\* entry's age at or beyond the interval evicts it and hands out nothing but
\* a newly constructed object, which becomes the entry.
C1_SameSessionUntilMaxAge ==
  [][\A t \in Threads :
       /\ (pc[t] = "get_session" /\ pc'[t] # "get_session"
             /\ key[t] \in DOMAIN sessions) =>
            LET s == sessions[key[t]] IN
              /\ (Age(s) < reconnect_interval /\ ~Closed(heap, s)
                    /\ heap[s].transport = "active")
                   => /\ Returns(t)
                      /\ session'[t] = s
                      /\ sessions' = sessions
              /\ Age(s) >= reconnect_interval
                   => /\ pc'[t] = "connect1"
                      /\ key[t] \notin DOMAIN sessions'
       /\ (pc[t] \in {"connect1", "connect2"} /\ Returns(t)) => FreshFor(t)
    ]_vars

\* two callers hold the same young session object at the same time
C1_Witness ==
  \E t, u \in Threads :
    /\ t # u
    /\ pc[t] = "running" /\ pc[u] = "running"
    /\ session[t] = session[u]
    /\ Age(session[t]) < reconnect_interval

\* C2 as stated: the exec call that follows a mid-command transport failure
\* and finds the endpoint unreachable makes at most 2 connect attempts.
C2_AtMostTwoConnects ==
  \A t \in Threads :
    (stats[t].after /\ ~stats[t].ok) => stats[t].fails <= 2

\* C2 amended: such a call makes at most 4 connect attempts, two in each of
\* its two get_session calls, and after the fourth it is in the handler of
\* its last attempt, with the connect failure as its error.
C2_AtMostFourConnects ==
  \A t \in Threads :
    (stats[t].after /\ ~stats[t].ok) =>
      /\ stats[t].fails <= 2 * max_retries
      /\ stats[t].fails = 2 * max_retries =>
           /\ pc[t] = "except"
           /\ error[t] = "connect_failed"
           /\ attempt[t] = max_retries - 1

C2_Witness ==
  \E t \in Threads :
    stats[t].after /\ ~stats[t].ok /\ stats[t].fails = 2 * max_retries

\* C3: the closed flag of a session never goes back to open, and get_session
\* never hands out a session whose closed flag is set: what it returns is an
\* open entry or an object constructed in the same step, under an identity
\* no earlier object had.
C3_ClosedNeverReused ==
  [][/\ \A s \in DOMAIN heap \cap DOMAIN heap' :
          Closed(heap, s) => Closed(heap', s)
     /\ DOMAIN heap' \ DOMAIN heap \subseteq {allocated + 1}
     /\ allocated' >= allocated
     /\ \A t \in Threads :
          Returns(t) =>
            /\ session'[t] \in DOMAIN heap'
            /\ ~Closed(heap', session'[t])
            /\ session'[t] \in DOMAIN heap => ~Closed(heap, session'[t])
    ]_vars

\* a caller has received a new session while the closed one it replaces,
\* for the same server, is still held by another caller
C3_Witness ==
  \E t, u \in Threads :
    /\ pc[t] = "ensure"
    /\ session[u] \in DOMAIN heap /\ session[t] \in DOMAIN heap
    /\ session[u] # session[t]
    /\ heap[session[u]].server = heap[session[t]].server
    /\ Closed(heap, session[u]) /\ ~Closed(heap, session[t])

\* the steps of one exec call left in the worst case, counted from where
\* thread t stands
Position(p) ==
  CASE p = "get_session" -> 6
    [] p = "connect1" -> 5
    [] p = "connect2" -> 4
    [] p = "ensure" -> 3
    [] p = "running" -> 2
    [] p = "except" -> 1
    [] OTHER -> 0

Rank(p, a) ==
  IF p \in {"done", "raised"} THEN 0 ELSE (max_retries - a) * 7 + Position(p)

\* C4: one exec call makes at most 2 attempts, each a get_session followed
\* by an execute; the handler of a connection error removes the entry of
\* the call's server before anything else happens in the call, then starts
\* the second attempt, or, on the second attempt, raises to the caller;
\* every step of the call brings it closer to its end, and the pool lock is
\* only ever held by a caller that is in a connect.
C4_TwoAttemptsThenRaise ==
  [][\A t \in Threads :
       /\ attempt'[t] \in 0..(max_retries - 1)
       /\ pc'[t] = "running" => pc[t] \in {"running", "ensure"}
       /\ pc'[t] = "ensure" => pc[t] \in {"ensure", "get_session", "connect1", "connect2"}
       /\ lock' # "free" => pc'[lock'] \in {"connect1", "connect2"}
       /\ (pc[t] = "except" /\ pc'[t] # "except") =>
            /\ key[t] \notin DOMAIN sessions'
            /\ attempt[t] = 0 =>
                 pc'[t] = "get_session" /\ attempt'[t] = 1
            /\ attempt[t] = 1 =>
                 pc'[t] = "raised" /\ error'[t] = error[t] /\ error[t] # "none"
       /\ pc'[t] = "raised" => pc[t] \in {"raised", "except"}
       /\ (pc[t] \notin {"done", "raised"}
             /\ <<pc[t], attempt[t]>> # <<pc'[t], attempt'[t]>>) =>
            Rank(pc'[t], attempt'[t]) < Rank(pc[t], attempt[t])
    ]_vars

\* a call has raised after its second attempt
C4_Witness ==
  \E t \in Threads : pc[t] = "raised" /\ error[t] = "exec_failed"

\* C5: a command that ran and exited with a non-zero code ends the call on
\* that attempt with that very code and the decoded stdout and stderr; the
\* session it ran on is not closed by it, the dictionary is unchanged, no
\* error is recorded and no further attempt is made.
C5_NonZeroExitReturned ==
  [][\A t \in Threads : \A r \in Replies :
       (r.code # 0 /\ ExecOk(t, r)) =>
         /\ pc'[t] = "done"
         /\ result'[t] = <<r.code, Decode(r.out), Decode(r.err)>>
         /\ error'[t] = "none"
         /\ sessions' = sessions
         /\ allocated' = allocated
         /\ session[t] \in DOMAIN heap' =>
              heap'[session[t]].is_closed = heap[session[t]].is_closed
         /\ \A s \in DOMAIN heap' : s \in DOMAIN heap /\
              heap'[s].is_closed = heap[s].is_closed
    ]_vars

\* a call has returned exit code 2 on its first attempt, its session still
\* the open entry of its server
C5_Witness ==
  \E t \in Threads :
    /\ pc[t] = "done"
    /\ result[t] # <<>>
    /\ result[t][1] = 2
    /\ key[t] \in DOMAIN sessions
    /\ ~Closed(heap, sessions[key[t]])

\* C6: the dictionary has at most one entry per server (it is a function of
\* the key), the entry of a key is a session of that server, and of the
\* session objects of one server at most one is not closed: the one in the
\* dictionary.
C6_OneOpenSessionPerServer ==
  /\ \A k \in DOMAIN sessions :
       sessions[k] \in DOMAIN heap /\ heap[sessions[k]].server = k
  /\ \A k, j \in DOMAIN sessions : sessions[k] = sessions[j] => k = j
  /\ \A s \in DOMAIN heap :
       ~Closed(heap, s) =>
         /\ heap[s].server \in DOMAIN sessions
         /\ sessions[heap[s].server] = s
  /\ \A s, u \in DOMAIN heap :
       (heap[s].server = heap[u].server /\ ~Closed(heap, s) /\ ~Closed(heap, u))
         => s = u

\* two callers run commands on two session objects of the same server, the
\* older one closed, the newer one the entry
C6_Witness ==
  \E t, u \in Threads :
    /\ pc[t] = "running" /\ pc[u] = "running"
    /\ session[t] # session[u]
    /\ heap[session[t]].server = heap[session[u]].server
    /\ Closed(heap, session[t])
    /\ ~Closed(heap, session[u])

\* C7: a get_session call that has to connect makes at most 2 connects:
\* after the first failure it is at the second connect, the lock still
\* held; a successful second connect stores the new session under the key
\* and returns it; a failed second connect raises, the lock released and
\* nothing stored, and the call makes no further connect.
C7_ConnectRetriedOnce ==
  [][\A t \in Threads :
       /\ stats'[t].call \in {0, 1}
       /\ (pc[t] = "connect1" /\ pc'[t] # "connect1") =>
            \/ Returns(t) /\ FreshFor(t) /\ lock' = "free"
            \/ pc'[t] = "connect2" /\ lock' = t /\ stats'[t].call = 1
                 /\ sessions' = sessions
       /\ (pc[t] = "connect2" /\ pc'[t] # "connect2") =>
            \/ Returns(t) /\ FreshFor(t) /\ lock' = "free"
            \/ /\ pc'[t] = "except"
               /\ error'[t] = "connect_failed"
               /\ lock' = "free"
               /\ sessions' = sessions
               /\ key[t] \notin DOMAIN sessions
       /\ pc'[t] = "connect2" => pc[t] \in {"connect1", "connect2"}
       /\ pc'[t] = "connect1" => pc[t] \in {"connect1", "get_session"}
    ]_vars

\* a get_session call has failed both of its connects
C7_Witness ==
  \E t \in Threads :
    pc[t] = "except" /\ error[t] = "connect_failed" /\ attempt[t] = 0

\* C8: when the execution of a command fails at the transport, the session
\* it ran on has its closed flag set by the time the caller's handler has
\* control, the caller has the error and no result, and nothing but that
\* flag and the transport's state changed in the pool.
C8_FailureClosesSession ==
  [][\A t \in Threads :
       (pc[t] = "running" /\ pc'[t] = "except") =>
         /\ error'[t] = "exec_failed"
         /\ result'[t] = <<>>
         /\ session'[t] = session[t]
         /\ session[t] \in DOMAIN heap'
         /\ Closed(heap', session[t])
         /\ sessions' = sessions
         /\ \A s \in DOMAIN heap \ {session[t]} :
              s \in DOMAIN heap' /\ heap'[s] = heap[s]
    ]_vars

\* a command failed on a session that was open and is the entry of its
\* server: the caller is in its handler, the entry closed
C8_Witness ==
  \E t \in Threads :
    /\ pc[t] = "except"
    /\ error[t] = "exec_failed"
    /\ key[t] \in DOMAIN sessions
    /\ sessions[key[t]] = session[t]
    /\ Closed(heap, session[t])

\* C9: close_session(k), as the handler of a connection error calls it,
\* leaves no entry for k and k's former session closed; every other key
\* keeps its entry and every other session its state; with no entry for k
\* the dictionary and every session stay as they were.
C9_CloseSessionFrame ==
  [][\A t \in Threads :
       ExceptHandler(t) =>
         LET k == key[t] IN
           /\ k \notin DOMAIN sessions'
           /\ DOMAIN sessions' = DOMAIN sessions \ {k}
           /\ \A j \in DOMAIN sessions' : sessions'[j] = sessions[j]
           /\ k \in DOMAIN sessions =>
                \A s \in DOMAIN heap' :
                  /\ s \in DOMAIN heap
                  /\ s = sessions[k] => Closed(heap', s)
                  /\ s # sessions[k] => heap'[s] = heap[s]
           /\ k \notin DOMAIN sessions =>
                /\ sessions' = sessions
                /\ \A s \in DOMAIN heap' : s \in DOMAIN heap /\ heap'[s] = heap[s]
    ]_vars

\* the handler is about to close an open entry while another server has an
\* open entry too
C9_Witness ==
  \E t \in Threads :
    /\ pc[t] = "except"
    /\ lock = "free"
    /\ key[t] \in DOMAIN sessions
    /\ ~Closed(heap, sessions[key[t]])
    /\ \E j \in DOMAIN sessions : j # key[t] /\ ~Closed(heap, sessions[j])

\* the entries a cleanup started at time c with limit m has to remove
Stale(c, m) == {k \in DOMAIN sessions : heap[sessions[k]].last_used + m < c}

\* C10: a cleanup that read the clock at c removes and closes exactly the
\* entries last used more than max_idle_time before c; every other entry
\* stays, with its session as it was; an entry whose session was created at
\* c or later, by a get_session that ran after the cleanup read the clock,
\* is never removed.
C10_CleanupRemovesExactlyStale ==
  [][\A c \in Clock : \A m \in MaxIdleChoices :
       CleanupInactive(c, m) =>
         /\ DOMAIN sessions' = DOMAIN sessions \ Stale(c, m)
         /\ \A k \in DOMAIN sessions' :
              /\ sessions'[k] = sessions[k]
              /\ heap'[sessions[k]] = heap[sessions[k]]
         /\ \A k \in Stale(c, m) :
              /\ sessions[k] \in DOMAIN heap' => Closed(heap', sessions[k])
              /\ heap[sessions[k]].created_at < c
         /\ \A k \in DOMAIN sessions :
              heap[sessions[k]].created_at >= c => k \in DOMAIN sessions'
    ]_vars

\* a cleanup that read the clock before the last tick is about to run, one
\* entry stale for it and another one inserted after it read the clock
C10_Witness ==
  \E c \in Clock : \E m \in MaxIdleChoices :
    /\ lock = "free"
    /\ c < now
    /\ Stale(c, m) # {}
    /\ \E k \in DOMAIN sessions : heap[sessions[k]].created_at > c

\* C11 as stated: a remote command that exceeds its timeout ends the call on
\* that attempt with a result of exit code 1; the timeout is no connection
\* error, the session stays open and the command is not tried again.
C11_TimeoutIsAResult ==
  [][\A t \in Threads :
       ExecTimeout(t) =>
         /\ pc'[t] = "done"
         /\ result'[t] # <<>>
         /\ result'[t][1] = 1
         /\ error'[t] = "none"
         /\ session[t] \in DOMAIN heap' => ~Closed(heap', session[t])
    ]_vars

(* ====================================================================== *)
(*        the workspaces of allocated servers: allocated_server_utils.py  *)
(* ====================================================================== *)
(* ------------------------------- str ---------------------------------- *)
\* symbolic links followed while one path is resolved
MaxLinks == 2

whitespace == {" ", "\n"}

startswith(s, prefix) ==
  Len(s) >= Len(prefix) /\ SubSeq(s, 1, Len(prefix)) = prefix

endswith(s, suffix) ==
  Len(s) >= Len(suffix) /\ SubSeq(s, Len(s) - Len(suffix) + 1, Len(s)) = suffix

\* sub in s
contains(s, sub) ==
  \E i \in 1..(Len(s) - Len(sub) + 1) : SubSeq(s, i, i + Len(sub) - 1) = sub

\* s[n:]
drop(s, n) == SubSeq(s, n + 1, Len(s))

RECURSIVE lstrip(_)
lstrip(s) ==
  IF s # <<>> /\ Head(s) \in whitespace THEN lstrip(Tail(s)) ELSE s

RECURSIVE rstrip(_)
rstrip(s) ==
  IF s # <<>> /\ s[Len(s)] \in whitespace
    THEN rstrip(SubSeq(s, 1, Len(s) - 1))
    ELSE s

strip(s) == rstrip(lstrip(s))

\* s.split(sep): the pieces between the separators, empty ones included
RECURSIVE split(_, _)
split(s, sep) ==
  IF \E i \in 1..Len(s) : s[i] = sep
    THEN LET i == CHOOSE i \in 1..Len(s) :
                    s[i] = sep /\ \A j \in 1..(i - 1) : s[j] # sep
         IN <<SubSeq(s, 1, i - 1)>> \o split(drop(s, i), sep)
    ELSE <<s>>

\* sep.join(parts)
RECURSIVE join(_, _)
join(parts, sep) ==
  IF parts = <<>> THEN <<>>
  ELSE IF Len(parts) = 1 THEN parts[1]
  ELSE parts[1] \o <<sep>> \o join(Tail(parts), sep)

(* ------------------------------ pathlib ------------------------------- *)
parent(p) == IF p = <<>> THEN <<>> ELSE SubSeq(p, 1, Len(p) - 1)

\* p is base or below it (relative_to does not raise)
is_relative_to(p, base) == startswith(p, base)

\* p.relative_to(base)
relative_to(p, base) == drop(p, Len(base))

\* os.path.realpath, which Path.resolve() is: the names are walked from the
\* root of the host, a symbolic link is replaced by its target, ".." goes up
\* from where the walk has come to, and what does not exist is kept as
\* written
RECURSIVE realpath(_, _, _, _)
realpath(f, done, rest, links) ==
  IF rest = <<>> THEN done
  ELSE LET name == Head(rest)
           next == Append(done, name)
       IN IF name = <<>> \/ name = <<".">>
            THEN realpath(f, done, Tail(rest), links)
          ELSE IF name = <<".", ".">>
            THEN realpath(f, parent(done), Tail(rest), links)
          ELSE IF next \in DOMAIN f /\ f[next].kind = "link" /\ links > 0
            THEN realpath(f, <<>>, f[next].target \o Tail(rest), links - 1)
          ELSE realpath(f, next, Tail(rest), links)

\* Path.resolve()
resolve(f, p) == realpath(f, <<>>, p, MaxLinks)

\* Path.exists(), is_dir(), is_file(): of what the path leads to
exists(f, p) == resolve(f, p) \in DOMAIN f

is_dir(f, p) == exists(f, p) /\ f[resolve(f, p)].kind = "dir"

is_file(f, p) == exists(f, p) /\ f[resolve(f, p)].kind = "file"

\* str(p) of an absolute path
str(p) == IF p = <<>> THEN <<"/">> ELSE <<"/">> \o join(p, "/")

\* Path(text) of an absolute path: the names between the slashes
Path(text) == SelectSeq(split(text, "/"), LAMBDA name : name # <<>>)

\* Path.mkdir(parents=True, exist_ok=True): p and the ancestors it lacks
mkdir_parents(f, p) ==
  [q \in DOMAIN f \cup {SubSeq(p, 1, n) : n \in 0..Len(p)} |->
     IF q \in DOMAIN f THEN f[q] ELSE Dir]

(* ------------------------------ the sandbox --------------------------- *)
\* get_server_root (lines 13-19): the workspace is made if it is not there
get_server_root(f) == mkdir_parents(f, server_root)

\* the tests of lines 49-54 left out: ".." is a part like any other
safe_part_keeping_dotdot(part) ==
  /\ part # <<>>
  /\ part # <<".">>

\* lines 46-55: what is left of a part, and whether it is kept
safe_part(part) ==
  /\ part # <<>>
  /\ part # <<".">>
  /\ part # <<".", ".">>
  /\ ~contains(part, <<".", ".">>)
  /\ ~startswith(part, <<"/">>)

\* the loop without the strip of line 46
safe_parts_untrimmed(path) == SelectSeq(split(path, "/"), safe_part)

\* lines 43-55
safe_parts(path) ==
  LET parts == split(path, "/") IN
    SelectSeq([i \in 1..Len(parts) |-> strip(parts[i])], safe_part)

\* the final check left out
inside_or_root_unchecked(normalized, root) == normalized

\* lines 66-73: the final check
inside_or_root(normalized, root) ==
  IF is_relative_to(normalized, root) THEN normalized ELSE root

\* normalize_path without lines 30-32, "~" taken for a name like any other
normalize_path_home_as_name(f, path) ==
  inside_or_root(resolve(f, resolve(f, server_root) \o safe_parts(path)),
                 resolve(f, server_root))

\* normalize_path (lines 22-73), on the filesystem get_server_root left
normalize_path(f, path) ==
  LET server_root_resolved == resolve(f, server_root)
      unhomed == IF startswith(path, <<"~", "/">>) THEN drop(path, 2) ELSE path
      unrooted == IF startswith(unhomed, <<"/">>) THEN drop(unhomed, 1) ELSE unhomed
      kept == safe_parts(unrooted)
      normalized == IF kept # <<>>
                      THEN resolve(f, server_root_resolved \o kept)
                      ELSE server_root_resolved
  IN IF path = <<"~">> \/ path = <<>>
       THEN server_root_resolved
       ELSE inside_or_root(normalized, server_root_resolved)

\* the path of the host shown in place of the form of the workspace
display_of_host(rel_path) == str(server_root \o rel_path)

\* line 86 without the test of line 84
display_always_below(rel_path) == <<"~", "/">> \o join(rel_path, "/")

\* lines 84-86
display(rel_path) ==
  IF rel_path = <<>> THEN <<"~">> ELSE <<"~", "/">> \o join(rel_path, "/")

\* get_relative_path (lines 76-89)
get_relative_path(f, absolute_path) ==
  LET root == resolve(f, server_root)
      resolved == resolve(f, absolute_path)
  IN IF is_relative_to(resolved, root)
       THEN display(relative_to(resolved, root))
       ELSE <<"~">>

(* --------------------------- exec_command_local ----------------------- *)
\* timeout: int = 30 (line 92), in seconds
default_timeout == 30

\* str.lower() on the capitals that occur
lower_char(c) ==
  CASE c = "S" -> "s" [] c = "U" -> "u" [] c = "D" -> "d" [] c = "O" -> "o"
    [] OTHER -> c

\* the command compared as it was written
lower_as_written(s) == s

lower(s) == [i \in 1..Len(s) |-> lower_char(s[i])]

\* line 101, in the order of the list
dangerous_commands ==
  << <<"r", "m", " ", "-", "r", "f">>, <<"s", "u", "d", "o">>, <<"s", "u">>,
     <<"c", "h", "m", "o", "d">>, <<"c", "h", "o", "w", "n">>, <<"d", "d">>,
     <<"m", "k", "f", "s">>, <<"f", "d", "i", "s", "k">> >>

\* line 104
is_dangerous(command, dangerous) == contains(lower(command), dangerous)

\* lines 103-105: the index of the first entry of the list found in the
\* command, 0 when there is none
first_dangerous(command) ==
  LET hits == {i \in 1..Len(dangerous_commands) :
                 is_dangerous(command, dangerous_commands[i])}
  IN IF hits = {} THEN 0 ELSE CHOOSE i \in hits : \A j \in hits : i <= j

\* line 105
forbidden(dangerous) ==
  <<"command ", "\"">> \o dangerous \o <<"\"", " is forbidden">>

\* lines 109 and 168
is_cd(command) == startswith(strip(command), <<"c", "d", " ">>)

\* lines 112-113 and 171-172
unquote(cd_path) ==
  IF \/ startswith(cd_path, <<"\"">>) /\ endswith(cd_path, <<"\"">>)
     \/ startswith(cd_path, <<"'">>) /\ endswith(cd_path, <<"'">>)
    THEN SubSeq(cd_path, 2, Len(cd_path) - 1)
    ELSE cd_path

\* lines 110-113 and 169-172
cd_path_of(command) == unquote(strip(drop(strip(command), 3)))

\* lines 109-124: the only refusal of a cd
cd_refused(f, command) ==
  /\ is_cd(command)
  /\ LET cd_path == cd_path_of(command) IN
       /\ startswith(cd_path, <<"/">>) \/ contains(cd_path, <<".", ".">>)
       /\ LET normalized == normalize_path(f, cd_path) IN
            /\ resolve(f, normalized) # resolve(f, server_root)
            /\ ~is_relative_to(resolve(f, normalized), resolve(f, server_root))

\* lines 165-176
current_cwd(f, command) ==
  IF is_cd(command) THEN normalize_path(f, cd_path_of(command)) ELSE server_root

\* line 189
asks_pwd(command) ==
  \/ strip(command) = <<"p", "w", "d">>
  \/ endswith(strip(command), <<" ", "&", "&", " ", "p", "w", "d">>)

(* the commands callers send, and what /bin/sh makes of them *)
cmd_pwd == <<"p", "w", "d">>

cmd_cd_a == <<"c", "d", " ", "a">>

cmd_cd_a_pwd == <<"c", "d", " ", "a", " ", "&", "&", " ", "p", "w", "d">>

cmd_cd_etc == <<"c", "d", " ", "/", "etc">>

cmd_cd_up == <<"c", "d", " ", ".", ".">>

cmd_cat_passwd == <<"c", "a", "t", " ", "/", "etc", "/", "passwd">>

cmd_touch_up == <<"t", "o", "u", "c", "h", " ", ".", ".", "/", "x">>

cmd_ln == <<"l", "n", " ", "-", "s", "T", " ", "/", "etc", " ", "b">>

cmd_sudo == <<"s", "u", "d", "o", " ", "l", "s">>

cmd_SUDO == <<"S", "U", "D", "O", " ", "l", "s">>

cmd_sleep == <<"s", "l", "e", "e", "p", " ", "6", "0">>

Commands ==
  {cmd_pwd, cmd_cd_a, cmd_cd_a_pwd, cmd_cd_etc, cmd_cd_up, cmd_cat_passwd,
   cmd_touch_up, cmd_ln, cmd_sudo, cmd_SUDO, cmd_sleep}

\* every command taken to end at once
duration_none(command) == 0

\* seconds the command runs for
duration(command) == IF command = cmd_sleep THEN 60 ELSE 0

\* a finished process: CompletedProcess and what it did to the host
Completed(f, code, out, err, touched) ==
  [fs |-> f, code |-> code, stdout |-> out, stderr |-> err,
   touched |-> touched, shell |-> TRUE]

\* line 240: the command list_directory_local makes
ls_lah == <<"l", "s", " ", "-", "l", "a", "h", " ", "\"">>

ls_command(cmd_path) == ls_lah \o cmd_path \o <<"\"">>

is_ls(command) ==
  startswith(command, ls_lah) /\ endswith(drop(command, Len(ls_lah)), <<"\"">>)

\* what is directly in a directory
children(f, d) == {q \in DOMAIN f : Len(q) = Len(d) + 1 /\ is_relative_to(q, d)}

\* the eight fields ls -l writes before a name, and the blank after them
ls_fields == "drwxr-xr-x 2 www www 4.0K Jan  1 00:00 "

\* ls -lah of a directory: the total, ".", ".." and one line for each
\* entry, in an order of the names that is taken as fixed
ls(f, d) ==
  LET names == {<<".">>, <<".", ".">>} \cup {q[Len(q)] : q \in children(f, d)}
      order == CHOOSE o \in [1..Cardinality(names) -> names] :
                 \A i, j \in DOMAIN o : o[i] = o[j] => i = j
      lines == [i \in DOMAIN order |-> <<ls_fields>> \o order[i]]
  IN <<"total 0", "\n">> \o join(lines, "\n") \o <<"\n">>

\* the shell's own cd and pwd, from the directory it was started in
sh_cd(f, cwd, name) == resolve(f, cwd \o <<name>>)

\* subprocess.run(command, shell=True, cwd=cwd) (lines 178-186): /bin/sh -c
\* command, started in cwd, with the rights of the server process
sh(f, cwd, command) ==
  LET here == resolve(f, cwd)
      a == sh_cd(f, cwd, <<"a">>)
      x == resolve(f, cwd \o << <<".", ".">>, <<"x">> >>)
      b == here \o << <<"b">> >>
  IN CASE command = cmd_pwd ->
            Completed(f, 0, str(here) \o <<"\n">>, <<>>, {here})
       [] command = cmd_cd_a ->
            IF is_dir(f, a) THEN Completed(f, 0, <<>>, <<>>, {a})
            ELSE Completed(f, 1, <<>>, <<"cd: can't cd to a", "\n">>, {a})
       [] command = cmd_cd_a_pwd ->
            IF is_dir(f, a)
              THEN Completed(f, 0, str(a) \o <<"\n">>, <<>>, {a})
              ELSE Completed(f, 1, <<>>, <<"cd: can't cd to a", "\n">>, {a})
       [] command = cmd_cd_etc ->
            Completed(f, 0, <<>>, <<>>, {etc})
       [] command = cmd_cd_up ->
            Completed(f, 0, <<>>, <<>>, {parent(here)})
       [] command = cmd_cat_passwd ->
            Completed(f, 0, f[passwd].content, <<>>, {passwd})
       [] command = cmd_touch_up ->
            Completed(IF x \in DOMAIN f THEN f ELSE (x :> File(<<>>)) @@ f,
                      0, <<>>, <<>>, {x})
       [] command = cmd_ln ->
            IF b \in DOMAIN f
              THEN Completed(f, 1, <<>>, <<"ln: failed to create symbolic link", "\n">>, {b})
              ELSE Completed((b :> Link(etc)) @@ f, 0, <<>>, <<>>, {b})
       [] command \in {cmd_sudo, cmd_SUDO} ->
            Completed(f, 1, <<>>, <<"sudo: a password is required", "\n">>, {here})
       [] command = cmd_sleep ->
            Completed(f, 0, <<>>, <<>>, {})
       [] is_ls(command) ->
            LET d == resolve(f, cwd \o Path(SubSeq(command, Len(ls_lah) + 1,
                                                   Len(command) - 1)))
            IN IF is_dir(f, d)
                 THEN Completed(f, 0, ls(f, d), <<>>, {d})
                 ELSE Completed(f, 2, <<>>, <<"ls: cannot access", "\n">>, {d})
       [] OTHER ->
            Completed(f, 127, <<>>, <<"not found", "\n">>, {})

\* what exec_command_local returns without a process having run
Refused(f, err, touched) ==
  [fs |-> f, code |-> 1, stdout |-> <<>>, stderr |-> err,
   touched |-> touched, shell |-> FALSE]

\* lines 188-199: the output of pwd is given in the form of the workspace
rewritten(command, r) ==
  IF asks_pwd(command) /\ r.code = 0 /\ r.stdout # <<>>
    THEN [r EXCEPT !.stdout =
            get_relative_path(r.fs, Path(strip(r.stdout))) \o <<"\n">>]
    ELSE r

\* exec_command_local (lines 92-203)
exec_command_local(f0, command, timeout) ==
  LET f == get_server_root(f0)
      d == first_dangerous(command)
      cwd == current_cwd(f, command)
  IN IF d # 0
       THEN Refused(f, forbidden(dangerous_commands[d]), {})
     ELSE IF cd_refused(f, command)
       THEN Refused(f, <<"access denied: outside of the server directory">>, {})
     ELSE IF ~is_dir(f, cwd)
       THEN Refused(f, <<"[Errno 2] No such file or directory: '">>
                         \o str(cwd) \o <<"'">>, {cwd})
     ELSE IF duration(command) > timeout
       THEN [Refused(f, <<"the command ran out of time">>, {}) EXCEPT !.shell = TRUE]
     ELSE rewritten(command, sh(f, cwd, command))

(* ---------------------------- file operations ------------------------- *)
\* open(..., newline=None), as read_text opens the file: "\r\n" and "\r"
\* are read as "\n"
RECURSIVE universal_newlines(_)
universal_newlines(text) ==
  IF text = <<>> THEN <<>>
  ELSE IF Head(text) = "\r"
    THEN IF Len(text) >= 2 /\ text[2] = "\n"
           THEN <<"\n">> \o universal_newlines(drop(text, 2))
           ELSE <<"\n">> \o universal_newlines(Tail(text))
  ELSE <<Head(text)>> \o universal_newlines(Tail(text))

\* Path.read_text(encoding='utf-8') of a text file
read_text(f, p) == universal_newlines(f[resolve(f, p)].content)

\* Path.write_text(content, encoding='utf-8'); on the host's POSIX
\* filesystem "\n" is written as it is
write_text(f, p, content) == (resolve(f, p) :> File(content)) @@ f

\* mkdir taken never to raise
can_mkdir_unchecked(f, p) == TRUE

\* mkdir(parents=True, exist_ok=True) raises when a name on the way is taken
\* by something that is no directory
can_mkdir(f, p) ==
  \A n \in 0..Len(p) :
    SubSeq(p, 1, n) \in DOMAIN f => f[SubSeq(p, 1, n)].kind = "dir"

\* the paths mkdir(parents=True) makes
made(f, p) == {SubSeq(p, 1, n) : n \in 0..Len(p)} \ DOMAIN f

\* shutil.rmtree(p) and Path.unlink(): p and all below it
remove(f, p) == [q \in {q \in DOMAIN f : ~is_relative_to(q, p)} |-> f[q]]

Failure(f, message) ==
  [fs |-> f, result |-> [success |-> FALSE, message |-> message], touched |-> {}]

Success(f, message, touched) ==
  [fs |-> f, result |-> [success |-> TRUE, message |-> message],
   touched |-> touched]

\* the check after normalize_path that every file operation repeats
\* (lines 380-383, 413-416, 324-327, 514-517)
escapes(f, target_path) ==
  ~is_relative_to(resolve(f, target_path), resolve(f, server_root))

access_denied == <<"access denied: outside of the server directory">>

\* read_file_local (lines 371-401)
read_file_local(f0, file_path) ==
  LET f == get_server_root(f0)
      target_path == normalize_path(f, file_path)
  IN IF escapes(f, target_path) THEN Failure(f, access_denied)
     ELSE IF ~exists(f, target_path)
       THEN Failure(f, <<"file not found: ">> \o file_path)
     ELSE IF is_dir(f, target_path)
       THEN Failure(f, <<"a directory, not a file: ">> \o file_path)
     ELSE [fs |-> f,
           result |-> [success |-> TRUE, content |-> read_text(f, target_path),
                       message |-> <<"file read">>],
           touched |-> {target_path}]

\* write_file_local (lines 404-429)
write_file_local(f0, file_path, content) ==
  LET f == get_server_root(f0)
      target_path == normalize_path(f, file_path)
  IN IF escapes(f, target_path) THEN Failure(f, access_denied)
     ELSE IF is_dir(f, target_path)
       THEN Failure(f, <<"a directory, not a file: ">> \o file_path)
     ELSE IF ~can_mkdir(f, parent(target_path))
       THEN Failure(f, <<"write error: [Errno 20] Not a directory: '">>
                         \o str(target_path) \o <<"'">>)
     ELSE Success(write_text(mkdir_parents(f, parent(target_path)),
                             target_path, content),
                  <<"saved: ">> \o file_path,
                  {target_path} \cup made(f, parent(target_path)))

\* create_directory_local (lines 315-338)
create_directory_local(f0, dir_path) ==
  LET f == get_server_root(f0)
      target_path == normalize_path(f, dir_path)
  IN IF escapes(f, target_path) THEN Failure(f, access_denied)
     ELSE IF exists(f, target_path)
       THEN Failure(f, <<"the directory exists: ">> \o dir_path)
     ELSE IF ~can_mkdir(f, target_path)
       THEN Failure(f, <<"mkdir error: [Errno 20] Not a directory: '">>
                         \o str(target_path) \o <<"'">>)
     ELSE Success(mkdir_parents(f, target_path),
                  <<"directory made: ">> \o dir_path, made(f, target_path))

\* delete_file_local (lines 504-528)
delete_file_local(f0, file_path) ==
  LET f == get_server_root(f0)
      target_path == normalize_path(f, file_path)
  IN IF escapes(f, target_path) THEN Failure(f, access_denied)
     ELSE IF ~exists(f, target_path)
       THEN Failure(f, <<"not found: ">> \o file_path)
     ELSE Success(remove(f, target_path), <<"deleted: ">> \o file_path,
                  {q \in DOMAIN f : is_relative_to(q, target_path)})

\* create_file_local (lines 286-312); Path.touch() makes an empty file
create_file_local(f0, file_path) ==
  LET f == get_server_root(f0)
      target_path == normalize_path(f, file_path)
  IN IF escapes(f, target_path) THEN Failure(f, access_denied)
     ELSE IF exists(f, target_path)
       THEN Failure(f, <<"the file exists: ">> \o file_path)
     ELSE IF ~can_mkdir(f, parent(target_path))
       THEN Failure(f, <<"create error: [Errno 20] Not a directory: '">>
                         \o str(target_path) \o <<"'">>)
     ELSE Success(write_text(mkdir_parents(f, parent(target_path)),
                             target_path, <<>>),
                  <<"created: ">> \o file_path,
                  {target_path} \cup made(f, parent(target_path)))

\* Path.rename(target): what is at p and below it is found at target
renamed(f, p, target) ==
  [q \in {q \in DOMAIN f : ~is_relative_to(q, p)}
       \cup {target \o relative_to(q, p) : q \in {q \in DOMAIN f : is_relative_to(q, p)}}
     |-> IF is_relative_to(q, target)
           THEN f[p \o relative_to(q, target)]
           ELSE f[q]]

\* rename_file_local (lines 341-368); os.rename raises when the directory
\* the new name is to stand in is not there (ENOENT, ENOTDIR) and when a
\* directory is to be moved below itself (EINVAL)
rename_file_local(f0, old_path, new_path) ==
  LET f == get_server_root(f0)
      old_target == normalize_path(f, old_path)
      new_target == normalize_path(f, new_path)
  IN IF escapes(f, old_target) \/ escapes(f, new_target)
       THEN Failure(f, access_denied)
     ELSE IF ~exists(f, old_target)
       THEN Failure(f, <<"not found: ">> \o old_path)
     ELSE IF exists(f, new_target)
       THEN Failure(f, <<"exists: ">> \o new_path)
     ELSE IF ~is_dir(f, parent(new_target))
       THEN Failure(f, <<"rename error: [Errno 2] No such file or directory: '">>
                         \o str(old_target) \o <<"' -> '">>
                         \o str(new_target) \o <<"'">>)
     ELSE IF is_relative_to(new_target, old_target)
       THEN Failure(f, <<"rename error: [Errno 22] Invalid argument: '">>
                         \o str(old_target) \o <<"' -> '">>
                         \o str(new_target) \o <<"'">>)
     ELSE Success(renamed(f, old_target, new_target),
                  <<"renamed: ">> \o old_path \o <<" -> ">> \o new_path,
                  {old_target, new_target})

\* lines 243-256: the lines of "." and ".." are taken out of the output
without_dots(stdout) ==
  LET lines == split(stdout, "\n")
      kept(line) == ~(/\ strip(line) # <<>>
                      /\ Head(strip(line)) # "total 0"
                      /\ Head(strip(line)) = ls_fields
                      /\ Tail(strip(line)) \in {<<".">>, <<".", ".">>})
  IN join(SelectSeq(lines, kept), "\n")

\* list_directory_local (lines 206-260)
list_directory_local(f0, path) ==
  LET f == get_server_root(f0)
      server_root_resolved == resolve(f, server_root)
      normalized == normalize_path(f, path)
      target_path == IF escapes(f, normalized)
                       THEN server_root_resolved ELSE normalized
      rel_path == relative_to(target_path, server_root_resolved)
      cmd_path == IF rel_path = <<>> THEN <<".">> ELSE join(rel_path, "/")
      ran == exec_command_local(f, ls_command(cmd_path), default_timeout)
  IN IF ~exists(f, target_path)
       THEN Refused(f, <<"Directory not found: ">> \o path, {})
     ELSE IF ~is_dir(f, target_path)
       THEN Refused(f, <<"Not a directory: ">> \o path, {})
     ELSE IF ran.stdout # <<>>
       THEN [ran EXCEPT !.stdout = without_dots(ran.stdout)]
     ELSE ran

\* Path.rglob('*'): all there is below a directory; a symbolic link is
\* met, not entered
rglob(f, d) == {q \in DOMAIN f : q # d /\ is_relative_to(q, d)}

\* every name taken to match
fnmatch_any(name, pattern) == TRUE

\* fnmatch of a name against '*pattern*', for a pattern of plain
\* characters; with the empty pattern the glob is '**', which gives
\* directories only
fnmatch(name, pattern) == pattern # <<>> /\ contains(name, pattern)

\* lines 464-470: what the loop lets through
found(f, search_root, pattern) ==
  {q \in rglob(f, search_root) :
     /\ fnmatch(q[Len(q)], pattern)
     /\ is_relative_to(resolve(f, q), resolve(f, server_root))
     /\ is_file(f, q)}

\* the orders in which the directories may hand out their entries
Orders(S) ==
  {o \in [1..Cardinality(S) -> S] : \A i, j \in DOMAIN o : o[i] = o[j] => i = j}

\* lines 476-477: the loop ends once the list is max_results long, and it
\* looks at the length after it has added a path
taken(n, max_results) ==
  IF n = 0 THEN 0
  ELSE IF max_results <= 1 THEN 1
  ELSE IF max_results < n THEN max_results ELSE n

\* search_files_local (lines 432-501), scandir being the order in which
\* the files that pass are met
search_files_local(f0, search_path, pattern, max_results, scandir) ==
  LET f == get_server_root(f0)
      search_root == normalize_path(f, search_path)
      root == resolve(f, server_root)
      files == [i \in 1..taken(Len(scandir), max_results) |->
                  display(relative_to(scandir[i], root))]
  IN IF ~exists(f, search_root) \/ ~is_dir(f, search_root)
       THEN [fs |-> f, touched |-> {},
             result |-> [success |-> FALSE, files |-> <<>>, count |-> 0,
                         message |-> <<"directory not found: ">> \o search_path]]
       ELSE [fs |-> f, touched |-> rglob(f, search_root),
             result |-> [success |-> TRUE, files |-> files, count |-> Len(files),
                         message |-> <<"found ", ToString(Len(files)), " file(s)">>]]

\* sum(f.stat().st_size ...) of line 539, a character taken for a byte
RECURSIVE st_size(_, _)
st_size(f, files) ==
  IF files = {} THEN 0
  ELSE LET q == CHOOSE q \in files : TRUE
       IN Len(f[resolve(f, q)].content) + st_size(f, files \ {q})

\* get_system_stats_local (lines 531-559)
get_system_stats_local(f0) ==
  LET f == get_server_root(f0)
      all == rglob(f, server_root)
      files == {q \in all : is_file(f, q)}
      dirs == {q \in all : is_dir(f, q)}
  IN [fs |-> f, code |-> 0, stderr |-> <<>>, touched |-> all, shell |-> FALSE,
      stdout |-> <<"=== Server Statistics ===", "\n", "Root Directory: ">>
                   \o str(server_root)
                   \o <<"\n", "Total Size: ", ToString(st_size(f, files)), "\n",
                        "Files: ", ToString(Cardinality(files)), "\n",
                        "Directories: ", ToString(Cardinality(dirs)), "\n">>]

(* ------------------------- ssh_utils.py: the router ------------------- *)
Kinds == {"Server", "AllocatedServer"}

Operations ==
  {"exec", "list", "read", "write", "createFile", "createDir", "rename",
   "delete", "search", "stats"}

\* exec_command (ssh_utils.py lines 238-257): who runs the command
exec_command(kind) ==
  IF kind = "AllocatedServer"
    THEN [served_by |-> "nobody", outcome |-> "SSHConnectionError"]
    ELSE [served_by |-> "SessionPool", outcome |-> "result"]

\* the functions of ssh_utils.py whose body is a try with except Exception
\* (create_file, create_directory, rename_file, read_file, write_file,
\* search_files, delete_file); list_directory and get_system_stats have none
catches(operation) ==
  operation \in {"read", "write", "createFile", "createDir", "rename",
                 "delete", "search"}

\* each operation of ssh_utils.py builds a command and hands it to
\* exec_command
ssh_utils(kind, operation) ==
  LET ran == exec_command(kind) IN
    IF ran.outcome = "SSHConnectionError" /\ catches(operation)
      THEN [ran EXCEPT !.outcome = "failure result"]
      ELSE ran

(* ------------------------------- calls -------------------------------- *)
\* parts of the paths callers send
MaxParts == 3

Parts ==
  {<<>>, <<".">>, <<".", ".">>, <<"~">>, <<"a">>, <<"b">>, <<" ", "a">>,
   <<"a", ".", ".">>}

Paths ==
  {join(parts, "/") : parts \in UNION {[1..n -> Parts] : n \in 1..MaxParts}}

\* the paths the file operations are called with
FilePaths ==
  {<<"~">>, <<"a">>, <<"a", "/", "b">>, <<"b">>, <<"b", "/", "passwd">>,
   <<".", ".", "/", ".", ".", "/", "a">>}

Contents == {<<"buy milk">>, <<"x", "\r", "\n", "y">>}

\* what is searched for, and the most that is asked for
Patterns == {<<>>, <<"b">>, <<"config">>, <<".yaml">>}

MaxResults == 2

ResultLimits == (0..MaxResults) \cup {10}

\* absolute paths handed to get_relative_path
AbsolutePaths ==
  {<<>>, etc, passwd, ALLOCATED_SERVERS_ROOT, server_root,
   server_root \o << <<"a">> >>, server_root \o << <<"a">>, <<"b">> >>,
   server_root \o << <<"b">> >>, server_root \o << <<"b">>, <<"passwd">> >>}

\* Nothing in the program keeps what a call returned: `last` is the memory
\* of the model, there to relate a call to the one before it.  The functions
\* that only compute (the router's choice, normalize_path,
\* get_relative_path) are asked in every state of the host, with nothing
\* remembered, and their answer is forgotten before the next call.
Asked == {"route", "normalize_path", "get_relative_path"}

Forget ==
  /\ last # NoCall
  /\ last' = NoCall
  /\ UNCHANGED <<fs, vars>>

Route(kind, operation) ==
  /\ last = NoCall
  /\ last' = [op |-> "route", kind |-> kind, operation |-> operation]
               @@ ssh_utils(kind, operation)
  /\ UNCHANGED <<fs, vars>>

NormalizePath(path) ==
  /\ last = NoCall
  /\ fs' = get_server_root(fs)
  /\ last' = [op |-> "normalize_path", path |-> path,
              result |-> normalize_path(fs', path),
              shown |-> get_relative_path(fs', normalize_path(fs', path))]
  /\ UNCHANGED vars

GetRelativePath(absolute_path) ==
  /\ last = NoCall
  /\ fs' = get_server_root(fs)
  /\ last' = [op |-> "get_relative_path", path |-> absolute_path,
              result |-> get_relative_path(fs', absolute_path)]
  /\ UNCHANGED vars

ExecCommandLocal(command) ==
  LET r == exec_command_local(fs, command, default_timeout) IN
    /\ last.op \notin Asked
    /\ fs' = r.fs
    /\ last' = [op |-> "exec", command |-> command, code |-> r.code,
                stdout |-> r.stdout, stderr |-> r.stderr,
                touched |-> r.touched, shell |-> r.shell]
    /\ UNCHANGED vars

Served(name, path, r) ==
  [op |-> name, path |-> path, result |-> r.result, touched |-> r.touched]

ReadFileLocal(path) ==
  LET r == read_file_local(fs, path) IN
    /\ last.op \notin Asked
    /\ fs' = r.fs
    /\ last' = Served("read", path, r)
    /\ UNCHANGED vars

WriteFileLocal(path, content) ==
  LET r == write_file_local(fs, path, content) IN
    /\ last.op \notin Asked
    /\ fs' = r.fs
    /\ last' = Served("write", path, r) @@ [content |-> content]
    /\ UNCHANGED vars

CreateDirectoryLocal(path) ==
  LET r == create_directory_local(fs, path) IN
    /\ last.op \notin Asked
    /\ fs' = r.fs
    /\ last' = Served("createDir", path, r)
    /\ UNCHANGED vars

DeleteFileLocal(path) ==
  LET r == delete_file_local(fs, path) IN
    /\ last.op \notin Asked
    /\ fs' = r.fs
    /\ last' = Served("delete", path, r)
    /\ UNCHANGED vars

CreateFileLocal(path) ==
  LET r == create_file_local(fs, path) IN
    /\ last.op \notin Asked
    /\ fs' = r.fs
    /\ last' = Served("createFile", path, r)
    /\ UNCHANGED vars

RenameFileLocal(old_path, new_path) ==
  LET r == rename_file_local(fs, old_path, new_path) IN
    /\ last.op \notin Asked
    /\ fs' = r.fs
    /\ last' = Served("rename", old_path, r) @@ [new_path |-> new_path]
    /\ UNCHANGED vars

ListDirectoryLocal(path) ==
  LET r == list_directory_local(fs, path) IN
    /\ last.op \notin Asked
    /\ fs' = r.fs
    /\ last' = [op |-> "list", path |-> path, code |-> r.code,
                stdout |-> r.stdout, stderr |-> r.stderr,
                touched |-> r.touched, shell |-> r.shell]
    /\ UNCHANGED vars

SearchFilesLocal(search_path, pattern, max_results) ==
  /\ last.op \notin Asked
  /\ \E scandir \in Orders(found(get_server_root(fs),
                                  normalize_path(get_server_root(fs), search_path),
                                  pattern)) :
       LET r == search_files_local(fs, search_path, pattern, max_results, scandir)
       IN /\ fs' = r.fs
          /\ last' = Served("search", search_path, r)
                       @@ [pattern |-> pattern, max_results |-> max_results]
  /\ UNCHANGED vars

GetSystemStatsLocal ==
  LET r == get_system_stats_local(fs) IN
    /\ last.op \notin Asked
    /\ fs' = r.fs
    /\ last' = [op |-> "stats", code |-> r.code, stdout |-> r.stdout,
                stderr |-> r.stderr, touched |-> r.touched, shell |-> r.shell]
    /\ UNCHANGED vars

NextLocal ==
  \/ Forget
  \/ \E kind \in Kinds, operation \in Operations : Route(kind, operation)
  \/ \E path \in Paths : NormalizePath(path)
  \/ \E path \in AbsolutePaths : GetRelativePath(path)
  \/ \E command \in Commands : ExecCommandLocal(command)
  \/ \E path \in FilePaths : ReadFileLocal(path)
  \/ \E path \in FilePaths, content \in Contents : WriteFileLocal(path, content)
  \/ \E path \in FilePaths : CreateDirectoryLocal(path)
  \/ \E path \in FilePaths : DeleteFileLocal(path)

\* the local executor on its own: no request for a remote server is made
InitLocal ==
  /\ Init
  /\ key = [t \in Threads |-> 1]

SpecLocal == InitLocal /\ [][NextLocal]_<<vars, lvars>>

(* ---------------- the file operations on any workspace ---------------- *)
config_yaml == <<"config", ".yaml">>

other_txt == <<"other", ".txt">>

\* what a workspace may hold: a path and what is there
Candidates ==
  {<<server_root \o << <<"a">> >>, Dir>>,
   <<server_root \o << <<"a">> >>, File(<<"buy milk">>)>>,
   <<server_root \o << <<"a">>, <<"b">> >>, File(<<"x", "\r", "\n", "y">>)>>,
   <<server_root \o << <<"a">>, config_yaml >>, File(<<>>)>>,
   <<server_root \o << <<"b">> >>, Dir>>,
   <<server_root \o << <<"b">> >>, Link(etc)>>,
   <<server_root \o << <<"b">>, other_txt >>, File(<<"buy milk">>)>>,
   <<server_root \o << <<"b">>, config_yaml >>, File(<<"buy milk">>)>>}

\* one thing at a path, and a directory above everything
Consistent(S) ==
  /\ \A d, e \in S : d[1] = e[1] => d = e
  /\ \A e \in S : parent(e[1]) = server_root
                     \/ <<parent(e[1]), Dir>> \in S

\* the host with a workspace that holds S
Tree(S) ==
  [q \in DOMAIN get_server_root(Host) \cup {e[1] : e \in S} |->
     IF q \in DOMAIN get_server_root(Host)
       THEN get_server_root(Host)[q]
       ELSE (CHOOSE e \in S : e[1] = q)[2]]

\* the hosts the operations are called on: the one of a server not used
\* yet, and the ones earlier calls have left
Trees == {Host} \cup {Tree(S) : S \in {S \in SUBSET Candidates : Consistent(S)}}

InitFiles ==
  /\ InitSessions
  /\ key = [t \in Threads |-> 1]
  /\ fs \in Trees
  /\ last = NoCall

\* one call of a file operation on each workspace
NextFiles ==
  \/ last = NoCall /\ \E path \in FilePaths : ListDirectoryLocal(path)
  \/ last = NoCall /\ \E path \in FilePaths : ReadFileLocal(path)
  \/ last = NoCall /\ \E path \in FilePaths, content \in Contents :
                        WriteFileLocal(path, content)
  \/ last = NoCall /\ \E path \in FilePaths : CreateFileLocal(path)
  \/ last = NoCall /\ \E path \in FilePaths : CreateDirectoryLocal(path)
  \/ last = NoCall /\ \E old_path \in FilePaths, new_path \in FilePaths :
                        RenameFileLocal(old_path, new_path)
  \/ last = NoCall /\ \E path \in FilePaths : DeleteFileLocal(path)
  \/ last = NoCall /\ \E path \in FilePaths, pattern \in Patterns,
                           max_results \in ResultLimits :
                        SearchFilesLocal(path, pattern, max_results)
  \/ last = NoCall /\ GetSystemStatsLocal

SpecFiles == InitFiles /\ [][NextFiles]_<<vars, lvars>>

(* ------------------- properties of the local executor ------------------ *)
\* C12: whatever the operation, a call for an allocated server is served by
\* the local executor, a call for a remote server by the session pool, and
\* both come back as a result.
C12_ServedByKind ==
  last.op = "route" =>
    /\ last.served_by = IF last.kind = "AllocatedServer"
                          THEN "LocalExecutor" ELSE "SessionPool"
    /\ last.outcome = "result"

\* C13: whatever the path, with "..", a leading "/", a leading "~/" or
\* symbolic links on its way, normalize_path returns the resolved root of
\* the workspace or a path below it.
C13_ResolveStaysInside ==
  last.op = "normalize_path" =>
    is_relative_to(last.result, resolve(fs, server_root))

\* a path that goes up and then through a symbolic link to /etc has been
\* normalized
C13_Witness ==
  /\ last.op = "normalize_path"
  /\ last.path = <<".", ".", "/", "b">>
  /\ server_root \o << <<"b">> >> \in DOMAIN fs
  /\ fs[server_root \o << <<"b">> >>].kind = "link"
  /\ resolve(fs, server_root \o << <<"b">> >>) = etc
  /\ last.result = server_root

\* C14: normalize_path of "~" and of the empty path is exactly the resolved
\* root of the workspace.
C14_HomeAndEmptyAreRoot ==
  last.op = "normalize_path" /\ last.path \in {<<"~">>, <<>>} =>
    last.result = resolve(fs, server_root)

C14_Witness ==
  /\ last.op = "normalize_path"
  /\ last.path = <<"~">>
  /\ last.result = server_root
  /\ fs[server_root].kind = "dir"

\* a path as written from the root of the workspace: without the "~/" and
\* the "/" it may begin with
FromRoot(path) ==
  LET unhomed == IF startswith(path, <<"~", "/">>) THEN drop(path, 2) ELSE path
  IN IF startswith(unhomed, <<"/">>) THEN drop(unhomed, 1) ELSE unhomed

\* where a path leads when it is read as the operating system reads it,
\* from the root of the workspace and with ".." going up
Literal(f, path) ==
  resolve(f, resolve(f, server_root) \o split(FromRoot(path), "/"))

\* the path would leave the workspace
WouldEscape(f, path) ==
  path \notin {<<>>, <<"~">>}
    /\ ~is_relative_to(Literal(f, path), resolve(f, server_root))

\* the parts of a path that name something: not empty, not "." and without
\* ".." in them
Names(path) ==
  LET parts == split(FromRoot(path), "/")
      named(part) == strip(part) \notin {<<>>, <<".">>}
                       /\ ~contains(strip(part), <<".", ".">>)
  IN [i \in 1..Len(SelectSeq(parts, named)) |->
        strip(SelectSeq(parts, named)[i])]

\* C15 as stated: a path that would leave the workspace is normalized to
\* exactly the root and shown as "~".
C15_EscapeGivesRoot ==
  last.op = "normalize_path" /\ WouldEscape(fs, last.path) =>
    /\ last.result = resolve(fs, server_root)
    /\ last.shown = <<"~">>

\* C15 as the code has it: the ".." parts of a path that would leave the
\* workspace are dropped; the path is normalized to the root joined with
\* the names that remain (to the root itself when that leads out of the
\* workspace through a symbolic link) and is shown as "~" exactly when the
\* result is the root, as "~/" and the names below the root otherwise.
C15_EscapeDropsDotDot ==
  last.op = "normalize_path" /\ WouldEscape(fs, last.path) =>
    LET root == resolve(fs, server_root)
        below == resolve(fs, root \o Names(last.path))
    IN /\ last.result = IF is_relative_to(below, root) THEN below ELSE root
       /\ last.shown = display(relative_to(last.result, root))
       /\ last.shown = <<"~">> <=> last.result = root

\* "../../a" has been normalized to the directory a of the workspace
C15_Witness ==
  /\ last.op = "normalize_path"
  /\ last.path = <<".", ".", "/", ".", ".", "/", "a">>
  /\ WouldEscape(fs, last.path)
  /\ last.result = server_root \o << <<"a">> >>
  /\ last.shown = <<"~", "/", "a">>

\* C16: get_relative_path gives "~" for the root, "~/" followed by the path
\* from the root for what lies below the root, "~" for what lies outside,
\* and never a path of the host.  Where a path lies is where it leads to:
\* the function resolves it first (line 83).
C16_DisplayForm ==
  last.op = "get_relative_path" =>
    LET root == resolve(fs, server_root)
        abs == resolve(fs, last.path)
    IN /\ abs = root => last.result = <<"~">>
       /\ abs # root /\ is_relative_to(abs, root) =>
            last.result = <<"~", "/">> \o join(relative_to(abs, root), "/")
       /\ ~is_relative_to(abs, root) => last.result = <<"~">>
       /\ Head(last.result) = "~"
       /\ ~startswith(last.result, <<"/">>)

\* asked of a path two names below the root
C16_Witness ==
  /\ last.op = "get_relative_path"
  /\ last.path = server_root \o << <<"a">>, <<"b">> >>
  /\ last.result = <<"~", "/", "a", "/", "b">>

\* C17: whatever the command or the path, no call of the local executor
\* reads or changes a path of the host outside the root of the workspace.
C17_NothingTouchedOutside ==
  last.op \in {"exec", "read", "write", "createDir", "delete"} =>
    \A q \in last.touched : is_relative_to(q, resolve(fs, server_root))

\* a capital and its small letter
SameLetter(c, d) ==
  c = d \/ <<c, d>> \in {<<"S", "s">>, <<"U", "u">>, <<"D", "d">>, <<"O", "o">>}

\* the entry stands in the command, in whatever case the command is written
InAnyCase(command, entry) ==
  \E i \in 1..(Len(command) - Len(entry) + 1) :
    \A j \in 1..Len(entry) : SameLetter(command[i + j - 1], entry[j])

Denied(command) ==
  \E i \in 1..Len(dangerous_commands) : InAnyCase(command, dangerous_commands[i])

\* the call names an entry of the list that stands in the command
NamesEntry(command, stderr) ==
  \E i \in 1..Len(dangerous_commands) :
    /\ InAnyCase(command, dangerous_commands[i])
    /\ stderr = forbidden(dangerous_commands[i])

\* C18 as stated: a command with an entry of the list in it, in any case,
\* comes back with code 1 and a message naming the entry, no shell is
\* started and the filesystem is as it was.
C18_DeniedTouchesNothing ==
  [][\A command \in Commands :
       Denied(command) /\ ExecCommandLocal(command) =>
         /\ last'.code = 1
         /\ NamesEntry(command, last'.stderr)
         /\ ~last'.shell
         /\ fs' = fs
    ]_<<vars, lvars>>

\* C18 as the code has it: code 1, the entry named, no shell, and nothing
\* of the host read or changed, except that the directory of the workspace
\* and the directories above it are made when they are not there.
C18_DeniedOnlyMakesRoot ==
  [][\A command \in Commands :
       Denied(command) /\ ExecCommandLocal(command) =>
         /\ last'.code = 1
         /\ last'.stdout = <<>>
         /\ NamesEntry(command, last'.stderr)
         /\ ~last'.shell
         /\ last'.touched = {}
         /\ \A q \in DOMAIN fs : q \in DOMAIN fs' /\ fs'[q] = fs[q]
         /\ \A q \in DOMAIN fs' \ DOMAIN fs :
              is_relative_to(server_root, q) /\ fs'[q] = Dir
    ]_<<vars, lvars>>

\* "SUDO ls" has been refused, and the host holds an empty workspace and
\* nothing else that was not there at the start
C18_Witness ==
  /\ last.op = "exec"
  /\ last.command = cmd_SUDO
  /\ last.code = 1
  /\ ~last.shell
  /\ last.stderr = forbidden(<<"s", "u", "d", "o">>)
  /\ DOMAIN fs = DOMAIN Host \cup {parent(server_root), server_root}

\* C19: "pwd" answers "~" and a newline when the working directory is the
\* root of the workspace, and "~/a" and a newline when the call before it
\* was "cd a", a being a directory of the workspace.
C19_PwdFollowsCd ==
  [][ExecCommandLocal(cmd_pwd) =>
       IF /\ last.op = "exec"
          /\ last.command = cmd_cd_a
          /\ is_dir(fs, server_root \o << <<"a">> >>)
         THEN last'.stdout = <<"~", "/", "a", "\n">>
         ELSE last'.stdout = <<"~", "\n">>
    ]_<<vars, lvars>>

\* C20: for a path that leads to something inside the workspace that is no
\* directory, and any text, write_file_local succeeds, and read_file_local
\* of the same path, called next, succeeds and returns the text written.
C20_ReadReturnsWritten ==
  [][\A path \in FilePaths :
       /\ \A content \in Contents :
            /\ ~is_dir(get_server_root(fs),
                       normalize_path(get_server_root(fs), path))
            /\ WriteFileLocal(path, content)
            => last'.result.success
       /\ /\ last.op = "write"
          /\ last.path = path
          /\ last.result.success
          /\ ReadFileLocal(path)
          => /\ last'.result.success
             /\ last'.result.content = last.content
    ]_<<vars, lvars>>

(* ------------------- properties of the file operations ----------------- *)
FileOps ==
  {"list", "read", "write", "createFile", "createDir", "rename", "delete",
   "search", "stats"}

\* the call came back with a failure
Failed(r) ==
  IF r.op \in {"list", "stats"} THEN r.code # 0 ELSE ~r.result.success

\* a result of the form the operation gives: code, stdout and stderr for
\* the listing and the statistics, success and a message for the others
Structured(r) ==
  IF r.op \in {"list", "stats"}
    THEN {"code", "stdout", "stderr"} \subseteq DOMAIN r /\ r.code \in Nat
    ELSE /\ {"success", "message"} \subseteq DOMAIN r.result
         /\ r.result.success \in BOOLEAN

\* what the workspace holds
Workspace(f) == [q \in rglob(f, server_root) |-> f[q]]

\* where the path of a call leads, on the host as the call finds it
Target(f, path) == normalize_path(get_server_root(f), path)

\* a name on the way to p is taken by a regular file
ThroughFile(f, p) ==
  \E n \in 1..(Len(p) - 1) :
    SubSeq(p, 1, n) \in DOMAIN f /\ f[SubSeq(p, 1, n)].kind = "file"

\* the call could not be served: what it is about is not found, exists
\* already, is a directory or is not a directory
Conflict(f, r) ==
  LET g == get_server_root(f)
      t == Target(f, r.path)
  IN \/ r.op \in {"read", "delete", "rename", "list", "search"} /\ ~exists(g, t)
     \/ r.op \in {"createFile", "createDir"} /\ exists(g, t)
     \/ r.op = "rename" /\ exists(g, Target(f, r.new_path))
     \/ r.op \in {"read", "write"} /\ is_dir(g, t)
     \/ r.op \in {"write", "createFile", "createDir"} /\ ThroughFile(g, t)
     \/ r.op \in {"list", "search"} /\ is_file(g, t)

\* C21: every file operation of the local executor comes back with a
\* result of its form, whatever the path and whatever the workspace holds;
\* when it cannot be served because something is not found, exists already,
\* is a directory or is not a directory, the result is a failure, and a
\* call that fails leaves what the workspace holds as it was.
C21_FailureIsAResult ==
  [][last'.op \in FileOps =>
       /\ Structured(last')
       /\ Conflict(fs, last') => Failed(last')
       /\ Failed(last') => Workspace(fs') = Workspace(fs)
    ]_<<vars, lvars>>

\* a write below a regular file has failed
C21_Witness ==
  /\ last.op = "write"
  /\ last.path = <<"a", "/", "b">>
  /\ fs[server_root \o << <<"a">> >>].kind = "file"
  /\ ~last.result.success

\* C22: for a path that would leave the workspace, read_file_local and
\* write_file_local come back with a failure and nothing in the workspace
\* changes, and list_directory_local lists the root of the workspace.
C22_EscapeRejectedOrClamped ==
  [][/\ last'.op \in {"read", "write", "list"}
     /\ WouldEscape(get_server_root(fs), last'.path)
     =>
       /\ last'.op \in {"read", "write"} =>
            Failed(last') /\ Workspace(fs') = Workspace(fs)
       /\ last'.op = "list" =>
            /\ last'.code = 0
            /\ last'.stdout =
                 without_dots(ls(get_server_root(fs), resolve(fs', server_root)))
    ]_<<vars, lvars>>

\* the path shown is that of a regular file below the directory searched
\* and inside the workspace, with the pattern in its name
ShownMatch(f, shown, search_path, pattern) ==
  \E q \in DOMAIN f :
    /\ shown = <<"~", "/">> \o join(relative_to(q, resolve(f, server_root)), "/")
    /\ f[q].kind = "file"
    /\ q # normalize_path(f, search_path)
    /\ is_relative_to(q, normalize_path(f, search_path))
    /\ is_relative_to(q, resolve(f, server_root))
    /\ contains(q[Len(q)], pattern)

\* the workspace holds a/config.yaml and b/other.txt, and no other
\* config.yaml
ExampleTree(f) ==
  /\ server_root \o << <<"a">>, config_yaml >> \in DOMAIN f
  /\ server_root \o << <<"b">>, other_txt >> \in DOMAIN f
  /\ server_root \o << <<"b">>, config_yaml >> \notin DOMAIN f

\* what the search returns, for the calls that ask for at least `least`
SearchResult(least) ==
  last.op = "search" /\ last.max_results >= least =>
    /\ last.result.count = Len(last.result.files)
    /\ Len(last.result.files) <= last.max_results
    /\ \A i \in DOMAIN last.result.files :
         ShownMatch(fs, last.result.files[i], last.path, last.pattern)
    /\ \A i, j \in DOMAIN last.result.files :
         last.result.files[i] = last.result.files[j] => i = j
    /\ (/\ ExampleTree(fs)
        /\ last.path = <<"~">>
        /\ last.pattern = <<"config">>
        /\ last.max_results = 10)
       => /\ last.result.files = << <<"~", "/", "a", "/", "config", ".yaml">> >>
          /\ last.result.count = 1

C24_TimeoutIsAResult ==
  [][ExecCommandLocal(cmd_sleep) =>
       /\ last'.op = "exec"
       /\ last'.code = 1
       /\ last'.stdout = <<>>
       /\ last'.stderr = <<"the command ran out of time">>
       /\ \A q \in DOMAIN fs : q \in DOMAIN fs' /\ fs'[q] = fs[q]
    ]_<<vars, lvars>>

C24_Witness ==
  /\ last.op = "exec"
  /\ last.command = cmd_sleep
  /\ last.shell
  /\ last.code = 1
  /\ last.stderr = <<"the command ran out of time">>

\* the texts a call hands back to its caller
Texts(r) ==
  CASE r.op \in {"exec", "list", "stats"} -> {r.stdout, r.stderr}
    [] r.op \in {"read", "write", "createFile", "createDir", "rename", "delete"} ->
         {r.result.message}
    [] r.op = "search" ->
         {r.result.message}
           \cup {r.result.files[i] : i \in DOMAIN r.result.files}
    [] OTHER -> {}

\* C25: nothing the local executor hands back (the output of pwd, the
\* messages of failures, the files a search found, the report of the
\* statistics) has the path of the workspace on the host in it.
C25_NoHostPathReturned ==
  \A text \in Texts(last) : ~contains(text, str(server_root))

(* ====================================================================== *)
(*                      properties of the locking                         *)
(* ====================================================================== *)
\* the thread is inside SSHClientFactory.connect (lines 144, 152) or in the
\* sleep of line 151 that precedes the second connect
Blocked(t) == pc[t] \in {"connect1", "connect2"}

\* C26: no thread is in a blocking call (the connect to the server, the
\* pause before the second connect) while it holds the lock of the pool.
C26_NoBlockingUnderPoolLock ==
  \A t \in Threads : Blocked(t) => lock # t

\* the command of the thread is in flight (line 55 to line 62)
InFlight(t) == pc[t] = "running"

Alive(s) == ~heap[s].is_closed /\ heap[s].transport = "active"

\* C28: a command goes out on the transport only from the liveness check of
\* the same execute_command call, and only when the check found the session
\* not closed and the transport active; a check that finds otherwise raises
\* SSHConnectionError, no command goes out and the session is not touched.
C28_CheckedBeforeCommand ==
  [][\A t \in Threads :
       /\ pc'[t] = "running" /\ pc[t] # "running" =>
            pc[t] = "ensure" /\ Alive(session[t]) /\ session'[t] = session[t]
       /\ pc[t] = "ensure" /\ pc'[t] # "ensure" /\ ~Alive(session[t]) =>
            /\ pc'[t] = "except"
            /\ error'[t] \in {"session_closed", "connection_lost"}
            /\ heap' = heap
    ]_vars

\* one thread's check has found the session closed while the command of
\* another thread is in flight
C28_Witness ==
  \E t, u \in Threads :
    /\ pc[t] = "except" /\ error[t] = "session_closed"
    /\ pc[u] = "running"

\* the entry of identity k holds a session made for k around a client that
\* SSHClientFactory.connect returned and that the pool has not closed
Connected(k) ==
  /\ sessions[k] \in DOMAIN heap
  /\ heap[sessions[k]].server = k
  /\ heap[sessions[k]].transport # "none"

\* C29: with the lock of the pool free, every entry is a session around a
\* connected client of its own identity.  A get_session that finds a stale
\* or invalid entry closes the session and its client and deletes the entry
\* before it connects; when the second connect fails too, the identity has
\* no entry, the lock is free and every session of the identity that is
\* still referred to is closed.
C29_EntryAndSessionTogether ==
  /\ [](lock = "free" => \A k \in DOMAIN sessions : Connected(k))
  /\ [][\A t \in Threads :
          /\ pc[t] = "get_session" /\ pc'[t] = "connect1"
                /\ key[t] \in DOMAIN sessions =>
               /\ key[t] \notin DOMAIN sessions'
               /\ sessions[key[t]] \in DOMAIN heap' =>
                    /\ heap'[sessions[key[t]]].is_closed
                    /\ heap'[sessions[key[t]]].transport = "none"
          /\ pc[t] = "connect2" /\ pc'[t] = "except" =>
               /\ key[t] \notin DOMAIN sessions'
               /\ lock' = "free"
               /\ \A s \in DOMAIN heap' :
                    heap'[s].server = key[t] => heap'[s].is_closed
       ]_vars

\* both connects of a thread have failed, the identity has no entry and the
\* evicted session, closed with its client, is still in the hands of
\* another thread
C29_Witness ==
  \E t \in Threads, s \in DOMAIN heap :
    /\ pc[t] = "except" /\ error[t] = "connect_failed"
    /\ lock = "free"
    /\ key[t] \notin DOMAIN sessions
    /\ heap[s].server = key[t]
    /\ heap[s].is_closed /\ heap[s].transport = "none"

\* the fields of a session other than the closed flag
Rest(o) == [f \in DOMAIN o \ {"is_closed"} |-> o[f]]

\* C30: close() on any session of any reachable heap, open or closed
\* already, leaves it closed; a second close changes nothing more; no other
\* field of the session, its transport among them, and no other session
\* is changed.
C30_CloseIdempotent ==
  \A s \in DOMAIN heap :
    LET once == close(heap, s) IN
      /\ once[s].is_closed
      /\ close(once, s) = once
      /\ DOMAIN once = DOMAIN heap
      /\ Rest(once[s]) = Rest(heap[s])
      /\ once[s].transport = heap[s].transport
      /\ \A x \in DOMAIN heap \ {s} : once[x] = heap[x]

\* the commands of two threads have failed on the session they share: each
\* has called close() on it (line 73), it is closed and its transport is
\* still the active one
C30_Witness ==
  \E s \in DOMAIN heap :
    /\ \A t \in Threads :
         pc[t] = "except" /\ error[t] = "exec_failed" /\ session[t] = s
    /\ heap[s].is_closed
    /\ heap[s].transport = "active"

(* ====================================================================== *)
(*                 more properties of the local executor                  *)
(* ====================================================================== *)
a_up_b == <<"a", "/", ".", ".", "/", "b">>

\* C31 as stated: for every path other than "" and "~", normalize_path
\* gives the root joined, in order, with the trimmed parts of the path that
\* are not empty, not "." and have no ".." in them.
C31_RootJoinedWithNames ==
  last.op = "normalize_path" /\ last.path \notin {<<>>, <<"~">>} =>
    last.result = resolve(fs, server_root) \o Names(last.path)

\* C31 as the code has it: the root joined with those parts is resolved
\* once more (line 62), which follows the symbolic links on the way, and a
\* result outside of the root is replaced by the root (lines 66-71); where
\* no link is met the result is the root joined with the parts.  A ".."
\* part takes nothing away: "a/../b" gives root/a/b.
C31_RootJoinedWithNamesResolved ==
  last.op = "normalize_path" /\ last.path \notin {<<>>, <<"~">>} =>
    LET root == resolve(fs, server_root)
        joined == root \o Names(last.path)
        below == resolve(fs, joined)
    IN /\ last.result = IF is_relative_to(below, root) THEN below ELSE root
       /\ (\A n \in 1..Len(joined) :
             SubSeq(joined, 1, n) \in DOMAIN fs =>
               fs[SubSeq(joined, 1, n)].kind # "link") =>
            last.result = joined
       /\ last.path = a_up_b =>
            last.result = server_root \o << <<"a">>, <<"b">> >>

\* "a/../b" has been normalized to root/a/b
C31_Witness ==
  /\ last.op = "normalize_path"
  /\ last.path = a_up_b
  /\ last.result = server_root \o << <<"a">>, <<"b">> >>

\* where the shell's cd goes for a target: from the root of the host when
\* the target begins with "/", from the root of the workspace otherwise
CdTarget(f, cd_path) ==
  IF startswith(cd_path, <<"/">>)
    THEN resolve(f, Path(cd_path))
    ELSE resolve(f, server_root \o split(cd_path, "/"))

C33_CloseSessionOnlyOwn ==
  [][\A t \in Threads :
       /\ pc[t] = "except" /\ pc'[t] # "except"
       /\ key[t] \in DOMAIN sessions
       /\ sessions[key[t]] # session[t]
       /\ is_valid(sessions[key[t]])
       => /\ key[t] \in DOMAIN sessions'
          /\ sessions'[key[t]] = sessions[key[t]]
          /\ sessions[key[t]] \in DOMAIN heap'
          /\ ~heap'[sessions[key[t]]].is_closed
    ]_vars

\* line 55 hands the command of thread t to a live transport in this step
Issues(t) ==
  /\ pc[t] = "running" /\ pc'[t] \in {"done", "except"}
  /\ heap[session[t]].transport = "active"

\* C34: within one exec_command_interactive call the command goes out at
\* most once: after an attempt that failed with the command already handed
\* to a live transport, no later attempt of the same call hands it over
\* again.
C34_IssuedAtMostOnce ==
  [][\A t \in Threads : sent[t] => ~Issues(t)]_vars

\* the sessions the pool holds
Pooled == {sessions[k] : k \in DOMAIN sessions}

\* C35: a session that leaves the pool, by whichever way, has its transport
\* torn down, so that every session with an active transport is one of the
\* pool.
C35_NoOpenTransportOutsidePool ==
  /\ [](\A s \in DOMAIN heap : heap[s].transport = "active" => s \in Pooled)
  /\ [][\A k \in DOMAIN sessions :
          /\ k \notin DOMAIN sessions' \/ sessions'[k] # sessions[k]
          /\ sessions[k] \in DOMAIN heap'
          => heap'[sessions[k]].transport # "active"
       ]_vars

\* C36: a get_session that replaces a session for its age alone (the
\* session is valid, line 127 fails on _should_reconnect) leaves the
\* transport alone when another thread has a command in flight on it.
C36_ReplacementSparesRunning ==
  [][\A t \in Threads :
       /\ pc[t] = "get_session" /\ pc'[t] = "connect1"
       /\ key[t] \in DOMAIN sessions
       /\ is_valid(sessions[key[t]])
       /\ should_reconnect(sessions[key[t]])
       => \A u \in Threads \ {t} :
            InFlight(u) /\ session[u] = sessions[key[t]] =>
              heap'[session[u]].transport = "active"
    ]_vars

Waits(t) == pc[t] \in {"get_session", "except"}

\* what the scheduling gives: a connect returns or raises in the end
\* (timeout=5, lines 144 and 152), the check and the command of a thread end
\* (the channel has a timeout, line 55), and a thread that asks for the lock
\* gets it when the lock is free again and again
Fairness ==
  \A t \in Threads :
    /\ WF_vars(ConnectOk(t) \/ ConnectFail(t))
    /\ WF_vars(EnsureClient(t))
    /\ WF_vars(\E r \in Replies : ExecOk(t, r))
    /\ WF_vars(\E dies \in BOOLEAN : ExecFail(t, dies))
    /\ SF_vars(GetSessionHit(t) \/ GetSessionEvict(t) \/ GetSessionMiss(t))
    /\ SF_vars(ExceptHandler(t))

\* The pool has one lock for the sessions of all servers, so which server
\* a call is for plays no part in who waits for whom: the calls of the
\* liveness specification are all for one server, where they also share
\* the session.
InitLive ==
  /\ Init
  /\ key = [t \in Threads |-> 1]

NextLive ==
  \/ \E t \in Threads : NextRequest(t, key[t])
  \/ \E t \in Threads : GetSessionHit(t)
  \/ \E t \in Threads : GetSessionEvict(t)
  \/ \E t \in Threads : GetSessionMiss(t)
  \/ \E t \in Threads : ConnectOk(t)
  \/ \E t \in Threads : ConnectFail(t)
  \/ \E t \in Threads : EnsureClient(t)
  \/ \E t \in Threads, r \in Replies : ExecOk(t, r)
  \/ \E t \in Threads, dies \in BOOLEAN : ExecFail(t, dies)
  \/ \E t \in Threads : ExceptHandler(t)
  \/ CloseAll
  \/ \E c \in Clock, m \in MaxIdleChoices : CleanupInactive(c, m)
  \/ Tick
  \/ \E s \in 1..MaxSessions : TransportDie(s)

SpecLive == InitLive /\ [][NextLive]_vars /\ Fairness

C39_DeleteSparesRoot ==
  [][/\ last'.op = "delete"
     /\ normalize_path(get_server_root(fs), last'.path)
          = resolve(get_server_root(fs), server_root)
     =>
       /\ Failed(last')
       /\ server_root \in DOMAIN fs'
       /\ \A q \in DOMAIN fs :
            is_relative_to(q, server_root) => q \in DOMAIN fs' /\ fs'[q] = fs[q]
    ]_<<vars, lvars>>

\* no symbolic link in the workspace
NoLinks(f) ==
  \A q \in DOMAIN f : is_relative_to(q, server_root) => f[q].kind # "link"

\* C40: in a workspace without symbolic links, the form in which
\* get_relative_path shows what normalize_path gave for a path is
\* normalized to that same result.
C40_NormalizeShownIsSame ==
  last.op = "normalize_path" /\ NoLinks(fs) =>
    /\ last.shown = get_relative_path(fs, last.result)
    /\ normalize_path(fs, last.shown) = last.result

\* " a/../b" was normalized to root/a/b, shown as "~/a/b", and that is
\* normalized to root/a/b again
C40_Witness ==
  /\ last.op = "normalize_path"
  /\ NoLinks(fs)
  /\ last.path = <<" ", "a", "/", ".", ".", "/", "b">>
  /\ last.shown = <<"~", "/", "a", "/", "b">>
  /\ last.shown # last.path
  /\ normalize_path(fs, last.shown) = server_root \o << <<"a">>, <<"b">> >>

====
